---- MODULE Spec2Model ----
(***************************************************************************)
(* Segmentation-Art: the SegmentArt page (document state, history, layers, *)
(* asynchronous segmentation / fill / merge handlers) and the KonvaCanvas  *)
(* component (region extraction, lasso extraction) as a state machine.     *)
(*                                                                         *)
(* Conventions.                                                            *)
(*  - An image is [w, h, px]: px is the row-major sequence of RGBA pixel   *)
(*    records, pixel (x,y) at px[y*w + x + 1].  The value with w = 0 is    *)
(*    the JavaScript null (no image).  A data URL is modelled by the       *)
(*    image it decodes to.                                                 *)
(*  - JavaScript arrays are 0-based; sequences here are 1-based, the       *)
(*    integer state historyIndex keeps the 0-based value of the code.      *)
(*  - A React handler reads the state of the render that created it: the   *)
(*    record "env" handed to an operator is that closure.  A handler       *)
(*    invoked from the current render gets DocEnv, an asynchronous         *)
(*    continuation gets the env captured when it started.                  *)
(*  - The KonvaCanvas under src/ names its callbacks onExtract /           *)
(*    extractRegion / extractLassoSelection; the page binds them as        *)
(*    onSegment / segmentRegion / segmentLassoSelection.  The model wires  *)
(*    the two components together under either name.                       *)
(***************************************************************************)
EXTENDS Integers, Sequences, FiniteSets, TLC

(***************************************************************************)
(* Bounds of the model                                                     *)
(***************************************************************************)
MaxHistory == 4      \* longest history stack explored
MaxLayers == 2       \* most layers in the stack
MaxClock == 2        \* largest value of Date.now() explored
MaxLassoPoints == 4  \* most points of a lasso selection
SubSamples == 4      \* coverage samples per pixel and axis of the rasteriser
MaxPanelLayers == 3  \* most layers of the layer panel, the base layer included
NumCallers == 2      \* concurrent callers of the api functions
MaxTicks == 2        \* steps of the clock explored by the api specifications
MaxObjects == 18     \* most arrays, layer objects and snapshots ever allocated
MaxIterations == 2   \* most iterations of dilateMask
MaxStrokes == 2      \* most brush strokes on the canvas

(***************************************************************************)
(* Program constants                                                       *)
(***************************************************************************)
StageWidth == 800        \* <KonvaCanvas width={800}>
StageHeight == 600       \* <KonvaCanvas height={600}>
KeepThreshold == 128     \* extraction pass: mask > 128 is "white"
RemoveThreshold == 200   \* base-update pass: mask > 200 is removed
InvertRatio == 3         \* whitePixels > blackPixels * 3
MinLassoScalars == 6     \* selection.points.length < 6 is rejected
MinMergeSelection == 2   \* selectedLayerIds.size < 2 is rejected
FillAlphaThreshold == 200 \* localContentAwareFill: alpha < 200 is a gap
MaxRetries == 3                \* API_CONFIG.maxRetries
RetryDelay == 1000             \* API_CONFIG.retryDelay
MaxRequestsPerMinute == 20     \* API_CONFIG.maxRequestsPerMinute
RequestWindow == 60000         \* API_CONFIG.requestWindow
RateLimitSleep == 5000         \* waitForRateLimit: setTimeout(resolve, 5000)
DetectTypeRetries == 2         \* detectImageType: let retries = 2

(***************************************************************************)
(* Generic helpers                                                         *)
(***************************************************************************)
Min(a, b) == IF a < b THEN a ELSE b

Max(a, b) == IF a > b THEN a ELSE b

\* Array.prototype.slice(0, n)
SliceTo(s, n) == SubSeq(s, 1, Min(Max(n, 0), Len(s)))

(***************************************************************************)
(* Labels are sequences of one-character strings so that                   *)
(* String.prototype.toLowerCase and String.prototype.includes are computed.*)
(***************************************************************************)
UpperChars == <<"A","B","C","D","E","F","G","H","I","J","K","L","M",
                "N","O","P","Q","R","S","T","U","V","W","X","Y","Z">>

LowerChars == <<"a","b","c","d","e","f","g","h","i","j","k","l","m",
                "n","o","p","q","r","s","t","u","v","w","x","y","z">>

LowerChar(c) ==
    IF \E i \in 1..26 : UpperChars[i] = c
    THEN LowerChars[CHOOSE i \in 1..26 : UpperChars[i] = c]
    ELSE c

ToLowerCase(s) == [i \in 1..Len(s) |-> LowerChar(s[i])]

Includes(s, sub) ==
    \E k \in 0..(Len(s) - Len(sub)) :
        \A j \in 1..Len(sub) : s[k + j] = sub[j]

StrBackground == <<"b","a","c","k","g","r","o","u","n","d">>

StrBg == <<"b","g">>

(***************************************************************************)
(* Images and the canvas                                                   *)
(***************************************************************************)
Pixel(r, g, b, a) == [r |-> r, g |-> g, b |-> b, a |-> a]

NullImage == [w |-> 0, h |-> 0, px |-> <<>>]

IsNull(img) == img.w = 0

MakeImage(w, h, px) == [w |-> w, h |-> h, px |-> px]

\* A canvas stores premultiplied colour: what getImageData / toDataURL give
\* back for a pixel written as (r,g,b,a).  A pixel of alpha 0 loses its RGB.
Premultiply(c, a) == (2 * c * a + 255) \div 510

Unpremultiply(p, a) == IF a = 0 THEN 0 ELSE Min(255, (2 * p * 255 + a) \div (2 * a))

CanvasPixel(p) ==
    Pixel(Unpremultiply(Premultiply(p.r, p.a), p.a),
          Unpremultiply(Premultiply(p.g, p.a), p.a),
          Unpremultiply(Premultiply(p.b, p.a), p.a),
          p.a)

\* ctx.drawImage(img, 0, 0, w, h); ctx.getImageData(0, 0, w, h)
GetImageData(img) == MakeImage(img.w, img.h, [i \in 1..Len(img.px) |-> CanvasPixel(img.px[i])])

\* ctx.putImageData(data, 0, 0); canvas.toDataURL()
ToDataURL(data) == MakeImage(data.w, data.h, [i \in 1..Len(data.px) |-> CanvasPixel(data.px[i])])

(***************************************************************************)
(* KonvaCanvas.extractRegion: the pure pixel passes                        *)
(***************************************************************************)
\* Math.floor((x / originalWidth) * maskImg.width), same for y; the index of
\* the mask sample in the mask's pixel sequence.
MaskIdx(x, y, w, h, mw, mh) ==
    LET maskX == (x * mw) \div w
        maskY == (y * mh) \div h
    IN  maskY * mw + maskX + 1

WhitePixels(maskData) == Cardinality({i \in 1..Len(maskData.px) : maskData.px[i].r > KeepThreshold})

BlackPixels(maskData) == Cardinality({i \in 1..Len(maskData.px) : ~(maskData.px[i].r > KeepThreshold)})

\* the rule without its label test
IsBackgroundRegion_RatioOnly(label, maskData) ==
    WhitePixels(maskData) > BlackPixels(maskData) * InvertRatio

IsBackgroundRegion(label, maskData) ==
    \/ Includes(ToLowerCase(label), StrBackground)
    \/ Includes(ToLowerCase(label), StrBg)
    \/ WhitePixels(maskData) > BlackPixels(maskData) * InvertRatio

\* the first pass without the inverted reading of the mask
ExtractLayerData_NoInversion(imageData, maskData, label) ==
    LET w == imageData.w
        h == imageData.h
        Out(i) ==
            LET x == (i - 1) % w
                y == (i - 1) \div w
                isWhite == maskData.px[MaskIdx(x, y, w, h, maskData.w, maskData.h)].r > KeepThreshold
            IN  IF isWhite THEN imageData.px[i] ELSE [imageData.px[i] EXCEPT !.a = 0]
    IN  MakeImage(w, h, [i \in 1..Len(imageData.px) |-> Out(i)])

\* first pass: the extracted layer's image data
ExtractLayerData(imageData, maskData, label) ==
    LET inv == IsBackgroundRegion(label, maskData)
        w == imageData.w
        h == imageData.h
        Out(i) ==
            LET x == (i - 1) % w
                y == (i - 1) \div w
                isWhite == maskData.px[MaskIdx(x, y, w, h, maskData.w, maskData.h)].r > KeepThreshold
                shouldKeep == IF inv THEN ~isWhite ELSE isWhite
            IN  IF shouldKeep THEN imageData.px[i] ELSE [imageData.px[i] EXCEPT !.a = 0]
    IN  MakeImage(w, h, [i \in 1..Len(imageData.px) |-> Out(i)])

\* the second pass with the threshold of the first
UpdateBaseData_KeepThreshold(mainImageData, maskData) ==
    LET w == mainImageData.w
        h == mainImageData.h
        Out(i) ==
            LET x == (i - 1) % w
                y == (i - 1) \div w
                isWhite == maskData.px[MaskIdx(x, y, w, h, maskData.w, maskData.h)].r > KeepThreshold
            IN  IF isWhite THEN [mainImageData.px[i] EXCEPT !.a = 0] ELSE mainImageData.px[i]
    IN  MakeImage(w, h, [i \in 1..Len(mainImageData.px) |-> Out(i)])

\* second pass: the updated base image data
UpdateBaseData(mainImageData, maskData) ==
    LET w == mainImageData.w
        h == mainImageData.h
        Out(i) ==
            LET x == (i - 1) % w
                y == (i - 1) \div w
                isWhite == maskData.px[MaskIdx(x, y, w, h, maskData.w, maskData.h)].r > RemoveThreshold
            IN  IF isWhite THEN [mainImageData.px[i] EXCEPT !.a = 0] ELSE mainImageData.px[i]
    IN  MakeImage(w, h, [i \in 1..Len(mainImageData.px) |-> Out(i)])

(***************************************************************************)
(* api.localContentAwareFill: the average-colour fill                      *)
(***************************************************************************)
\* Math.round(cos(pi/4) * radius) for radius 3..10
RingDiagonal == <<2, 3, 4, 4, 5, 6, 6, 7>>

\* the 8 sample offsets of one ring, angle = 2*pi*i/8, i = 0..7
RingOffsets(radius) ==
    LET d == RingDiagonal[radius - 2]
    IN  << <<radius, 0>>, <<d, d>>, <<0, radius>>, <<0 - d, d>>,
           <<0 - radius, 0>>, <<0 - d, 0 - d>>, <<0, 0 - radius>>, <<d, 0 - d>> >>

\* surroundingColors is kept as its length and its three channel sums
NoSamples == [n |-> 0, r |-> 0, g |-> 0, b |-> 0]

RECURSIVE SampleRing(_, _, _, _, _, _)
SampleRing(data, x, y, radius, i, acc) ==
    IF i > 8 THEN acc
    ELSE LET off == RingOffsets(radius)[i]
             sampleX == x + off[1]
             sampleY == y + off[2]
             inBounds == sampleX >= 0 /\ sampleX < data.w /\ sampleY >= 0 /\ sampleY < data.h
             p == data.px[sampleY * data.w + sampleX + 1]
             acc2 == IF inBounds /\ p.a >= FillAlphaThreshold
                     THEN [n |-> acc.n + 1, r |-> acc.r + p.r, g |-> acc.g + p.g, b |-> acc.b + p.b]
                     ELSE acc
         IN  SampleRing(data, x, y, radius, i + 1, acc2)

RECURSIVE SampleRadii(_, _, _, _, _)
SampleRadii(data, x, y, radius, acc) ==
    IF radius > 10 THEN acc
    ELSE LET acc2 == SampleRing(data, x, y, radius, 1, acc)
         IN  IF acc2.n > 50 THEN acc2 ELSE SampleRadii(data, x, y, radius + 1, acc2)

RECURSIVE SampleAll(_, _, _)
SampleAll(data, idxs, acc) ==
    IF idxs = <<>> THEN acc
    ELSE LET i == Head(idxs)
             x == (i - 1) % data.w
             y == (i - 1) \div data.w
         IN  SampleAll(data, Tail(idxs), SampleRadii(data, x, y, 3, acc))

\* Math.round(sum / n)
RoundDiv(sum, n) == (2 * sum + n) \div (2 * n)

\* a first pass that only collects the pixels of alpha 0
TransparentPixels_ZeroAlpha(data) ==
    SelectSeq([i \in 1..Len(data.px) |-> i], LAMBDA i : data.px[i].a = 0)

TransparentPixels(data) ==
    SelectSeq([i \in 1..Len(data.px) |-> i], LAMBDA i : data.px[i].a < FillAlphaThreshold)

LocalContentAwareFill(imageUrl) ==
    LET data == GetImageData(imageUrl)
        transparent == TransparentPixels(data)
        isGap == [i \in 1..Len(data.px) |-> data.px[i].a < FillAlphaThreshold]
        acc == SampleAll(data, transparent, NoSamples)
        fill == IF acc.n = 0 THEN Pixel(255, 255, 255, 255)
                ELSE Pixel(RoundDiv(acc.r, acc.n), RoundDiv(acc.g, acc.n), RoundDiv(acc.b, acc.n), 255)
    IN  IF transparent = <<>> THEN imageUrl
        ELSE ToDataURL(MakeImage(data.w, data.h,
                 [i \in 1..Len(data.px) |-> IF isGap[i] THEN fill ELSE data.px[i]]))

(***************************************************************************)
(* mergeLayers: the flattening of the selected layers                      *)
(***************************************************************************)
\* ctx.drawImage(img, 0, 0) on a canvas pixel (source-over)
DrawOverPixel(dst, src) ==
    LET Over(s, d) == Min(255, s + (2 * d * (255 - src.a) + 255) \div 510)
    IN  Pixel(Over(Premultiply(src.r, src.a), dst.r),
              Over(Premultiply(src.g, src.a), dst.g),
              Over(Premultiply(src.b, src.a), dst.b),
              Over(src.a, dst.a))

\* canvas pixels are premultiplied; the part of img outside the canvas is cut
DrawImage(canvas, img) ==
    LET Out(i) ==
            LET x == (i - 1) % canvas.w
                y == (i - 1) \div canvas.w
            IN  IF x < img.w /\ y < img.h
                THEN DrawOverPixel(canvas.px[i], img.px[y * img.w + x + 1])
                ELSE canvas.px[i]
    IN  MakeImage(canvas.w, canvas.h, [i \in 1..Len(canvas.px) |-> Out(i)])

RECURSIVE DrawAll(_, _)
DrawAll(canvas, selectedLayers) ==
    IF selectedLayers = <<>> THEN canvas
    ELSE DrawAll(DrawImage(canvas, Head(selectedLayers).url), Tail(selectedLayers))

\* canvas.toDataURL('image/png') of the merge canvas
MergedDataUrl(selectedLayers) ==
    LET first == selectedLayers[1].url
        blank == MakeImage(first.w, first.h, [i \in 1..(first.w * first.h) |-> Pixel(0, 0, 0, 0)])
        canvas == DrawAll(blank, selectedLayers)
    IN  MakeImage(canvas.w, canvas.h,
            [i \in 1..Len(canvas.px) |->
                Pixel(Unpremultiply(canvas.px[i].r, canvas.px[i].a),
                      Unpremultiply(canvas.px[i].g, canvas.px[i].a),
                      Unpremultiply(canvas.px[i].b, canvas.px[i].a),
                      canvas.px[i].a)])

(***************************************************************************)
(* State                                                                   *)
(***************************************************************************)
VARIABLES
    uploadedImage,     \* SegmentArt: useState<string | null>, the base image
    layers,            \* SegmentArt: useState<Layer[]>
    history,           \* SegmentArt: useState<HistoryState[]>
    historyIndex,      \* SegmentArt: useState(-1), 0-based
    selectedLayerIds,  \* SegmentArt: useState<Set<string>>
    detectedRegions,   \* SegmentArt: useState<DetectedRegion[]>
    imageType,         \* SegmentArt: 'face' | 'landscape' | null
    isSegmenting,      \* SegmentArt: busy flags
    isMerging,
    isFillingContent,
    isProcessing,
    hasSelection,      \* SegmentArt: set through onSelectionChange
    imageElement,      \* KonvaCanvas: the decoded base image it works on
    maskImages,        \* KonvaCanvas: decoded masks by region index
    selection,         \* KonvaCanvas: lasso points (display coordinates)
    listenerEnv,       \* KonvaCanvas: the page closure held by the window listener
    now,               \* Date.now()
    toast,             \* the toast shown by the last step, if any
    detectTask,        \* handleDetectRegions awaiting smartSegment
    fillTask,          \* handleContentAwareFill awaiting its fill
    mergeTask,         \* mergeLayers awaiting its image loads
    bgTask,            \* handleBgRemoval awaiting the parser or its 50 ms timer
    panelLayers,       \* LayerPanel: the layers prop, kept by the panel's owner
    draggedIndex,      \* LayerPanel: useState<number | null>
    dragOverIndex,     \* LayerPanel: useState<number | null>
    editingLayerId,    \* LayerPanel: useState<string | null>
    editingName,       \* LayerPanel: useState('')
    requests,          \* api.ts: API_CONFIG.requests, the request log
    calls,             \* api.ts: the pending call of each caller
    heap,              \* SegmentArt as JavaScript objects: the cell of each reference
    heapLayers,        \* the reference held by the state `layers`
    heapImage,         \* the string held by the state `uploadedImage`
    heapHistory,       \* the snapshot references held by the state `history`
    heapHistoryIndex,  \* the state `historyIndex`, 0-based
    heapTask,          \* the asynchronous handler in flight and its closure
    maskInput,         \* api.ts: the ImageData handed to a mask function
    maskCall,          \* api.ts: the mask function applied and its parameter
    maskResult,        \* api.ts: what the function returned
    lines,             \* KonvaCanvas: useState of the brush strokes, each its points
    isDrawing,         \* KonvaCanvas: isDrawing.current with currentLine.current set
    apiOutcome         \* api.ts: how the call that settled in the last step ended

docVars == <<uploadedImage, layers, history, historyIndex>>

pageVars == <<selectedLayerIds, detectedRegions, imageType, isSegmenting, isMerging,
              isFillingContent, isProcessing, hasSelection>>

canvasVars == <<imageElement, maskImages, selection, listenerEnv>>

taskVars == <<detectTask, fillTask, mergeTask, bgTask>>

panelVars == <<panelLayers, draggedIndex, dragOverIndex, editingLayerId, editingName>>

\* the SegmentArt page and its canvas
segmentArtVars == <<docVars, pageVars, canvasVars, taskVars, now, toast>>

\* the components and library functions outside the SegmentArt page
apiVars == <<requests, calls, apiOutcome>>

heapVars == <<heap, heapLayers, heapImage, heapHistory, heapHistoryIndex, heapTask>>

maskVars == <<maskInput, maskCall, maskResult>>

brushVars == <<lines, isDrawing>>

libVars == <<panelVars, apiVars, heapVars, maskVars, brushVars>>

vars == <<segmentArtVars, libVars>>

\* the state a handler created by the current render closes over
DocEnv == [image |-> uploadedImage, layers |-> layers,
           history |-> history, historyIndex |-> historyIndex]

EmptyEnv == [image |-> NullImage, layers |-> <<>>, history |-> <<>>, historyIndex |-> -1]

NoToast == [title |-> "", variant |-> ""]

Toast(title) == [title |-> title, variant |-> "default"]

Destructive(title) == [title |-> title, variant |-> "destructive"]

IdleDetect == [active |-> FALSE, image |-> NullImage]

IdleFill == [active |-> FALSE, local |-> FALSE, env |-> EmptyEnv]

IdleMerge == [active |-> FALSE, selectedLayers |-> <<>>, selectedIds |-> {}, layerCount |-> 0,
              stalled |-> FALSE]

IdleBg == [active |-> FALSE, parsed |-> FALSE, env |-> EmptyEnv, regionCount |-> 0, queue |-> <<>>]

LayerIds(ls) == {ls[i].id : i \in 1..Len(ls)}

(***************************************************************************)
(* Inputs of the document specification                                    *)
(***************************************************************************)
Red == Pixel(255, 0, 0, 255)

GreyMask(w, h, vals) == MakeImage(w, h, [i \in 1..Len(vals) |-> Pixel(vals[i], vals[i], vals[i], 255)])

\* the file the user uploads: 2x1, opaque
DocImage == MakeImage(2, 1, <<Red, Pixel(0, 0, 255, 255)>>)

UploadImages == {DocImage}

\* an upload that already has a gap: its first pixel is transparent
GapImage == MakeImage(2, 1, <<Pixel(0, 0, 0, 0), Pixel(0, 0, 255, 255)>>)

\* what smartSegment answers for it: two regions, one pixel each
DocRegions ==
    << [label |-> <<"n","o","s","e">>, mask |-> GreyMask(2, 1, <<255, 0>>)],
       [label |-> <<"h","a","i","r">>, mask |-> GreyMask(2, 1, <<0, 255>>)] >>

\* the answer explored from construction has the first of them
SegmentResults == {[imageType |-> "face", masks |-> <<DocRegions[1]>>]}

(***************************************************************************)
(* SegmentArt: history                                                     *)
(***************************************************************************)
\* a snapshot that records the base image and forgets the layers
SaveToHistory_ImageOnly(env) ==
    LET newState == [image |-> env.image, layers |-> <<>>]
        newHistory == Append(SliceTo(env.history, env.historyIndex + 1), newState)
    IN  [history |-> newHistory, historyIndex |-> Len(newHistory) - 1]

\* saveToHistory, on the closure env: the new (history, historyIndex)
SaveToHistory(env) ==
    LET newState == [image |-> env.image, layers |-> env.layers]
        newHistory == Append(SliceTo(env.history, env.historyIndex + 1), newState)
    IN  [history |-> newHistory, historyIndex |-> Len(newHistory) - 1]

\* the model stops growing the stack at MaxHistory
CanSave(env) == env.historyIndex + 2 <= MaxHistory

\* useEffect([uploadedImage, history.length]): the first snapshot
InitHistoryEffect(image, h) ==
    IF ~IsNull(image) /\ Len(h.history) = 0
    THEN [history |-> <<[image |-> image, layers |-> <<>>]>>, historyIndex |-> 0]
    ELSE h

\* what handleUndo makes of the state env: nothing at the bottom of the stack
Undone(env) ==
    IF env.historyIndex > 0
    THEN LET newIndex == env.historyIndex - 1
             state == env.history[newIndex + 1]
         IN  [image |-> state.image, layers |-> state.layers,
              history |-> env.history, historyIndex |-> newIndex]
    ELSE env

\* a redo that wraps round to the first snapshot at the top of the stack
Redone_Wrap(env) ==
    IF Len(env.history) > 0
    THEN LET newIndex == (env.historyIndex + 1) % Len(env.history)
             state == env.history[newIndex + 1]
         IN  [image |-> state.image, layers |-> state.layers,
              history |-> env.history, historyIndex |-> newIndex]
    ELSE env

\* what handleRedo makes of the state env: nothing at the top of the stack
Redone(env) ==
    IF env.historyIndex < Len(env.history) - 1
    THEN LET newIndex == env.historyIndex + 1
             state == env.history[newIndex + 1]
         IN  [image |-> state.image, layers |-> state.layers,
              history |-> env.history, historyIndex |-> newIndex]
    ELSE env

\* the document state alone
Restore(env) ==
    /\ uploadedImage' = env.image
    /\ layers' = env.layers
    /\ history' = env.history
    /\ historyIndex' = env.historyIndex

handleUndo ==
    /\ Restore(Undone(DocEnv))
    /\ toast' = IF historyIndex > 0 THEN Toast("Undo") ELSE NoToast
    /\ UNCHANGED <<pageVars, canvasVars, taskVars, now>>

handleRedo ==
    /\ Restore(Redone(DocEnv))
    /\ toast' = IF historyIndex < Len(history) - 1 THEN Toast("Redo") ELSE NoToast
    /\ UNCHANGED <<pageVars, canvasVars, taskVars, now>>

(***************************************************************************)
(* SegmentArt: upload, reset, region detection                             *)
(***************************************************************************)
\* handleFileUpload (reader.onload) followed by the history-initialising
\* effect.  The file input is rendered only while no image is uploaded.
handleFileUpload(imageData) ==
    /\ IsNull(uploadedImage)
    /\ uploadedImage' = imageData
    /\ LET h == InitHistoryEffect(imageData, [history |-> history, historyIndex |-> historyIndex])
       IN  /\ history' = h.history
           /\ historyIndex' = h.historyIndex
    /\ toast' = Toast("Image uploaded successfully")
    /\ UNCHANGED <<layers, pageVars, canvasVars, taskVars, now>>

\* handleReset, and the KonvaCanvas effects that follow the new (empty)
\* detectedRegions: the masks are cleared and the listener is re-registered.
\* imageElement is kept: the image effect does nothing for a null image.
handleReset ==
    /\ uploadedImage' = NullImage
    /\ layers' = <<>>
    /\ isProcessing' = FALSE
    /\ history' = <<>>
    /\ historyIndex' = -1
    /\ imageType' = "null"
    /\ detectedRegions' = <<>>
    /\ maskImages' = <<>>
    /\ listenerEnv' = EmptyEnv
    /\ toast' = Toast("Reset Complete")
    /\ UNCHANGED <<selectedLayerIds, isSegmenting, isMerging, isFillingContent, hasSelection,
                   imageElement, selection, taskVars, now>>

\* handleDetectRegions up to its await; the button is disabled while
\* isSegmenting.
handleDetectRegions ==
    /\ ~isSegmenting
    /\ ~detectTask.active
    /\ IF IsNull(uploadedImage)
       THEN /\ toast' = Destructive("Please upload an image first")
            /\ UNCHANGED <<isSegmenting, detectTask>>
       ELSE /\ isSegmenting' = TRUE
            /\ detectTask' = [active |-> TRUE, image |-> uploadedImage]
            /\ toast' = NoToast
    /\ UNCHANGED <<docVars, selectedLayerIds, detectedRegions, imageType, isMerging,
                   isFillingContent, isProcessing, hasSelection, canvasVars,
                   fillTask, mergeTask, bgTask, now>>

\* smartSegment resolves: the continuation of handleDetectRegions
DetectResolved(result) ==
    /\ detectTask.active
    /\ imageType' = result.imageType
    /\ detectedRegions' = result.masks
    /\ listenerEnv' = DocEnv
    /\ toast' = Toast("Image Detected")
    /\ isSegmenting' = FALSE
    /\ detectTask' = IdleDetect
    /\ UNCHANGED <<docVars, selectedLayerIds, isMerging, isFillingContent, isProcessing,
                   hasSelection, imageElement, maskImages, selection,
                   fillTask, mergeTask, bgTask, now>>

\* smartSegment rejects
DetectRejected ==
    /\ detectTask.active
    /\ toast' = Destructive("Could not detect regions")
    /\ isSegmenting' = FALSE
    /\ detectTask' = IdleDetect
    /\ UNCHANGED <<docVars, selectedLayerIds, detectedRegions, imageType, isMerging,
                   isFillingContent, isProcessing, hasSelection, canvasVars,
                   fillTask, mergeTask, bgTask, now>>

(***************************************************************************)
(* KonvaCanvas: effects                                                    *)
(***************************************************************************)
\* useEffect([image, width, height]): img.onload of the current base image
ImageLoaded ==
    /\ ~IsNull(uploadedImage)
    /\ imageElement # uploadedImage
    /\ imageElement' = uploadedImage
    /\ listenerEnv' = DocEnv
    /\ toast' = NoToast
    /\ UNCHANGED <<docVars, pageVars, maskImages, selection, taskVars, now>>

\* the masks of the regions: a region without a decodable mask has no entry
LoadedMasks(regions) == [i \in 1..Len(regions) |-> regions[i].mask]

\* useEffect([detectedRegions]): loadMaskImages has loaded every mask
MasksLoaded ==
    /\ Len(detectedRegions) > 0
    /\ maskImages # LoadedMasks(detectedRegions)
    /\ maskImages' = LoadedMasks(detectedRegions)
    /\ listenerEnv' = DocEnv
    /\ toast' = NoToast
    /\ UNCHANGED <<docVars, pageVars, imageElement, selection, taskVars, now>>

(***************************************************************************)
(* Region extraction: KonvaCanvas.extractRegion with the page's            *)
(* handleSegment (onExtract) and handleImageUpdate (onImageUpdate)         *)
(***************************************************************************)
\* the position object handed to onExtract: { x: 0, y: 0, width, height }
FullPosition(w, h) == [x |-> 0, y |-> 0, width |-> w, height |-> h]

NoExtraction == [layer |-> FALSE, base |-> FALSE, layerUrl |-> NullImage,
                 baseUrl |-> NullImage, type |-> <<>>, position |-> FullPosition(0, 0)]

\* extractRegion: what it hands to onExtract and to onImageUpdate.  ctx,
\* maskCtx and mainCtx tell whether the three getContext('2d') calls
\* returned a context.
extractRegion(regionIndex, ctx, maskCtx, mainCtx) ==
    LET hasRegion == regionIndex \in 1..Len(detectedRegions)
        hasMask == regionIndex \in 1..Len(maskImages) /\ ~IsNull(maskImages[regionIndex])
    IN  IF ~hasRegion \/ IsNull(imageElement) \/ ~hasMask THEN NoExtraction
        ELSE IF ~ctx THEN NoExtraction
        ELSE IF ~maskCtx THEN NoExtraction
        ELSE LET region == detectedRegions[regionIndex]
                 imageData == GetImageData(imageElement)
                 maskData == GetImageData(maskImages[regionIndex])
                 layerData == ExtractLayerData(imageData, maskData, region.label)
                 mainData == UpdateBaseData(GetImageData(imageElement), maskData)
             IN  [layer |-> TRUE, base |-> mainCtx, layerUrl |-> ToDataURL(layerData),
                  baseUrl |-> ToDataURL(mainData), type |-> region.label,
                  position |-> FullPosition(imageElement.w, imageElement.h)]

\* handleSegment builds the layer: x: position?.x || 0, ...
NewLayer(id, dataUrl, type, position) ==
    [id |-> id, url |-> dataUrl, visible |-> TRUE, type |-> type,
     x |-> position.x, y |-> position.y, width |-> position.width, height |-> position.height]

\* Date.now() never goes back; t is the value it returns now
ClockReads(t) == t \in {now, now + 1} /\ t <= MaxClock

\* onExtract then onImageUpdate, applied to the document.  env is the closure
\* of the handleSegment that is called, pending the (history, historyIndex)
\* already set in the same synchronous block, t the value of Date.now().
CommitExtraction(out, env, pending, t) ==
    /\ now' = t
    /\ IF out.layer
       THEN LET h == SaveToHistory(env)
            IN  /\ history' = h.history
                /\ historyIndex' = h.historyIndex
                /\ layers' = Append(layers, NewLayer(t, out.layerUrl, out.type, out.position))
       ELSE /\ history' = pending.history
            /\ historyIndex' = pending.historyIndex
            /\ UNCHANGED layers
    /\ uploadedImage' = IF out.base THEN out.baseUrl ELSE uploadedImage

\* handleDrawMove's hit test: the topmost region with a white mask pixel under
\* the pointer is hovered, so a region can be hovered where no later one is
IsWhiteAt(mask, i) == mask.px[i].r > 200 /\ mask.px[i].g > 200 /\ mask.px[i].b > 200

CanHover(regionIndex) ==
    /\ regionIndex \in 1..Len(detectedRegions)
    /\ regionIndex \in 1..Len(maskImages)
    /\ ~IsNull(maskImages[regionIndex])
    /\ \E x \in 0..(imageElement.w - 1), y \in 0..(imageElement.h - 1) :
          LET At(m) == MaskIdx(x, y, imageElement.w, imageElement.h, m.w, m.h)
          IN  /\ IsWhiteAt(maskImages[regionIndex], At(maskImages[regionIndex]))
              /\ \A j \in (regionIndex + 1)..Len(maskImages) :
                    IsNull(maskImages[j]) \/ ~IsWhiteAt(maskImages[j], At(maskImages[j]))

\* handleDrawStart in select mode on a hovered region
ClickRegion(regionIndex, ctx, maskCtx, mainCtx, t) ==
    /\ ClockReads(t)
    /\ ~IsNull(imageElement)
    /\ CanHover(regionIndex)
    /\ Len(layers) < MaxLayers
    /\ CanSave(DocEnv)
    /\ LET out == extractRegion(regionIndex, ctx, maskCtx, mainCtx)
       IN  /\ CommitExtraction(out, DocEnv, [history |-> history, historyIndex |-> historyIndex], t)
           /\ toast' = IF out.layer THEN Toast("Layer Created") ELSE NoToast
    /\ UNCHANGED <<pageVars, canvasVars, taskVars>>

(***************************************************************************)
(* SegmentArt: layer operations                                            *)
(***************************************************************************)
deleteLayer(layerId) ==
    /\ layerId \in LayerIds(layers)
    /\ CanSave(DocEnv)
    /\ LET h == SaveToHistory(DocEnv)
       IN  /\ history' = h.history
           /\ historyIndex' = h.historyIndex
    /\ layers' = SelectSeq(layers, LAMBDA l : l.id # layerId)
    /\ toast' = Toast("Layer deleted successfully")
    /\ UNCHANGED <<uploadedImage, pageVars, canvasVars, taskVars, now>>

toggleLayerVisibility(layerId) ==
    /\ layerId \in LayerIds(layers)
    /\ layers' = [i \in 1..Len(layers) |->
                    IF layers[i].id = layerId
                    THEN [layers[i] EXCEPT !.visible = ~layers[i].visible]
                    ELSE layers[i]]
    /\ toast' = NoToast
    /\ UNCHANGED <<uploadedImage, history, historyIndex, pageVars, canvasVars, taskVars,
                   now>>

toggleLayerSelection(layerId) ==
    /\ layerId \in LayerIds(layers)
    /\ selectedLayerIds' = IF layerId \in selectedLayerIds
                           THEN selectedLayerIds \ {layerId}
                           ELSE selectedLayerIds \cup {layerId}
    /\ toast' = NoToast
    /\ UNCHANGED <<docVars, detectedRegions, imageType, isSegmenting, isMerging,
                   isFillingContent, isProcessing, hasSelection, canvasVars, taskVars,
                   now>>

\* a precondition that only refuses the empty selection
TooFewSelected_Empty(ids) == Cardinality(ids) < MinMergeSelection - 1

\* mergeLayers' precondition
TooFewSelected(ids) == Cardinality(ids) < MinMergeSelection

\* mergeLayers up to its first await (the load of the first selected image).
\* With no selected id in the stack, selectedLayers[0].url throws at once and
\* the catch / finally blocks run in the same step.
mergeLayers ==
    /\ ~mergeTask.active
    /\ IF TooFewSelected(selectedLayerIds)
       THEN /\ toast' = Destructive("Select More Layers")
            /\ UNCHANGED <<history, historyIndex, isMerging, mergeTask>>
       ELSE LET h == SaveToHistory(DocEnv)
                selectedLayers == SelectSeq(layers, LAMBDA l : l.id \in selectedLayerIds)
            IN  /\ CanSave(DocEnv)
                /\ history' = h.history
                /\ historyIndex' = h.historyIndex
                /\ IF selectedLayers = <<>>
                   THEN /\ toast' = Destructive("Failed to merge layers")
                        /\ UNCHANGED <<isMerging, mergeTask>>
                   ELSE /\ isMerging' = TRUE
                        /\ mergeTask' = [active |-> TRUE, selectedLayers |-> selectedLayers,
                                         selectedIds |-> selectedLayerIds,
                                         layerCount |-> Len(layers), stalled |-> FALSE]
                        /\ toast' = NoToast
    /\ UNCHANGED <<uploadedImage, layers, selectedLayerIds, detectedRegions, imageType,
                   isSegmenting, isFillingContent, isProcessing, hasSelection, canvasVars,
                   detectTask, fillTask, bgTask, now>>

\* every selected image has loaded and the canvas has a context: the rest of
\* mergeLayers
MergeResolved(t) ==
    /\ ClockReads(t)
    /\ mergeTask.active
    /\ ~mergeTask.stalled
    /\ now' = t
    /\ LET mergedDataUrl == MergedDataUrl(mergeTask.selectedLayers)
           mergedLayer == NewLayer(t, mergedDataUrl, <<"m","e","r","g","e","d">>,
                                   FullPosition(mergedDataUrl.w, mergedDataUrl.h))
       IN  layers' = Append(SelectSeq(layers, LAMBDA l : l.id \notin mergeTask.selectedIds),
                            mergedLayer)
    /\ selectedLayerIds' = {}
    /\ toast' = Toast("Merged layers into one")
    /\ isMerging' = FALSE
    /\ mergeTask' = IdleMerge
    /\ UNCHANGED <<uploadedImage, history, historyIndex, detectedRegions, imageType,
                   isSegmenting, isFillingContent, isProcessing, hasSelection, canvasVars,
                   detectTask, fillTask, bgTask>>

\* canvas.getContext('2d') returned null: the catch and finally blocks
MergeRejected ==
    /\ mergeTask.active
    /\ ~mergeTask.stalled
    /\ toast' = Destructive("Failed to create canvas context")
    /\ isMerging' = FALSE
    /\ mergeTask' = IdleMerge
    /\ UNCHANGED <<docVars, selectedLayerIds, detectedRegions, imageType, isSegmenting,
                   isFillingContent, isProcessing, hasSelection, canvasVars,
                   detectTask, fillTask, bgTask, now>>

\* The image of a selected layer fails to load.  The promise awaited is
\* `new Promise((resolve) => { img.onload = resolve; })`: nothing listens to
\* the error event, the promise never settles and the function never resumes.
MergeLoadFailed ==
    /\ mergeTask.active
    /\ ~mergeTask.stalled
    /\ mergeTask' = [mergeTask EXCEPT !.stalled = TRUE]
    /\ toast' = NoToast
    /\ UNCHANGED <<docVars, pageVars, canvasVars, detectTask, fillTask, bgTask, now>>

(***************************************************************************)
(* SegmentArt: content-aware fill                                          *)
(***************************************************************************)
\* the image the remote inpainting service answers with: the gaps of the
\* base image painted, the rest as sent
InpaintColor == Pixel(0, 255, 0, 255)

InpaintResult(image) ==
    MakeImage(image.w, image.h,
        [i \in 1..Len(image.px) |-> IF image.px[i].a < 255 THEN InpaintColor ELSE image.px[i]])

HasTransparency(data) == \E i \in 1..Len(data.px) : data.px[i].a < 255

\* handleContentAwareFill up to its first await; the button is disabled while
\* isFillingContent.  useLocalFill is the state of the strategy switch.
handleContentAwareFill(useLocalFill) ==
    /\ ~isFillingContent
    /\ ~fillTask.active
    /\ IF IsNull(uploadedImage)
       THEN /\ toast' = Destructive("No Image")
            /\ UNCHANGED <<isFillingContent, fillTask>>
       ELSE /\ isFillingContent' = TRUE
            /\ fillTask' = [active |-> TRUE, local |-> useLocalFill, env |-> DocEnv]
            /\ toast' = Toast("Processing")
    /\ UNCHANGED <<docVars, selectedLayerIds, detectedRegions, imageType, isSegmenting,
                   isMerging, isProcessing, hasSelection, canvasVars,
                   detectTask, mergeTask, bgTask, now>>

\* localContentAwareFill / contentAwareFill resolves: the continuation runs in
\* the closure that started the fill
FillResolved ==
    /\ fillTask.active
    /\ CanSave(fillTask.env)
    /\ LET env == fillTask.env
           h == SaveToHistory(env)
       IN  IF ~fillTask.local /\ ~HasTransparency(GetImageData(env.image))
           THEN /\ toast' = Destructive("No Gaps Found")
                /\ UNCHANGED docVars
           ELSE /\ history' = h.history
                /\ historyIndex' = h.historyIndex
                /\ uploadedImage' = IF fillTask.local THEN LocalContentAwareFill(env.image)
                                    ELSE InpaintResult(env.image)
                /\ toast' = Toast("Gaps filled")
                /\ UNCHANGED layers
    /\ isFillingContent' = FALSE
    /\ fillTask' = IdleFill
    /\ UNCHANGED <<selectedLayerIds, detectedRegions, imageType, isSegmenting, isMerging,
                   isProcessing, hasSelection, canvasVars, detectTask, mergeTask, bgTask, now>>

\* a fill that took its history snapshot before calling the strategy and
\* then failed
FillRejected_SavedFirst ==
    /\ fillTask.active
    /\ CanSave(fillTask.env)
    /\ history' = SaveToHistory(fillTask.env).history
    /\ historyIndex' = SaveToHistory(fillTask.env).historyIndex
    /\ toast' = Destructive("Failed to fill content")
    /\ isFillingContent' = FALSE
    /\ fillTask' = IdleFill
    /\ UNCHANGED <<uploadedImage, layers, selectedLayerIds, detectedRegions, imageType,
                   isSegmenting, isMerging, isProcessing, hasSelection, canvasVars,
                   detectTask, mergeTask, bgTask, now>>

\* the image cannot be read, or the fill rejects: the catch and finally blocks
FillRejected ==
    /\ fillTask.active
    /\ toast' = Destructive("Failed to fill content")
    /\ isFillingContent' = FALSE
    /\ fillTask' = IdleFill
    /\ UNCHANGED <<docVars, selectedLayerIds, detectedRegions, imageType, isSegmenting,
                   isMerging, isProcessing, hasSelection, canvasVars,
                   detectTask, mergeTask, bgTask, now>>

(***************************************************************************)
(* SegmentArt: prompt-driven extraction (handleBgRemoval)                  *)
(***************************************************************************)
\* the indexes of a set in increasing order (Array.prototype.filter keeps
\* the order of detectedRegions)
RECURSIVE InOrder(_)
InOrder(S) ==
    IF S = {} THEN <<>>
    ELSE LET m == CHOOSE i \in S : \A j \in S : i <= j
         IN  <<m>> \o InOrder(S \ {m})

\* handleBgRemoval up to await parseSegmentationPrompt; the button is disabled
\* while isProcessing or while the prompt is blank
handleBgRemoval ==
    /\ ~isProcessing
    /\ ~bgTask.active
    /\ IF IsNull(uploadedImage)
       THEN /\ toast' = Destructive("Please enter what you want to extract")
            /\ UNCHANGED <<isProcessing, bgTask>>
       ELSE IF Len(detectedRegions) = 0
       THEN /\ toast' = Destructive("No Regions Detected")
            /\ UNCHANGED <<isProcessing, bgTask>>
       ELSE /\ isProcessing' = TRUE
            /\ bgTask' = [active |-> TRUE, parsed |-> FALSE, env |-> DocEnv,
                          regionCount |-> Len(detectedRegions), queue |-> <<>>]
            /\ toast' = NoToast
    /\ UNCHANGED <<docVars, selectedLayerIds, detectedRegions, imageType, isSegmenting,
                   isMerging, isFillingContent, hasSelection, canvasVars,
                   detectTask, fillTask, mergeTask, now>>

\* the prompt is parsed and no detected region matches it
BgNoMatch ==
    /\ bgTask.active /\ ~bgTask.parsed
    /\ toast' = Destructive("No Matches Found")
    /\ isProcessing' = FALSE
    /\ bgTask' = IdleBg
    /\ UNCHANGED <<docVars, selectedLayerIds, detectedRegions, imageType, isSegmenting,
                   isMerging, isFillingContent, hasSelection, canvasVars,
                   detectTask, fillTask, mergeTask, now>>

\* the prompt is parsed and matches the regions `matched`: saveToHistory in
\* the closure of handleBgRemoval, then the first 'segmentRegion' event, whose
\* listener runs extractRegion with the handleSegment it closed over
BgMatched(matched, ctx, maskCtx, mainCtx, t) ==
    /\ ClockReads(t)
    /\ bgTask.active /\ ~bgTask.parsed
    /\ matched # {} /\ matched \subseteq 1..bgTask.regionCount
    /\ CanSave(bgTask.env) /\ CanSave(listenerEnv)
    /\ Len(layers) < MaxLayers
    /\ LET queue == InOrder(matched)
           out == extractRegion(Head(queue), ctx, maskCtx, mainCtx)
       IN  /\ CommitExtraction(out, listenerEnv, SaveToHistory(bgTask.env), t)
           /\ toast' = IF out.layer THEN Toast("Layer Created") ELSE NoToast
           /\ bgTask' = [bgTask EXCEPT !.parsed = TRUE, !.queue = Tail(queue)]
    /\ UNCHANGED <<pageVars, canvasVars, detectTask, fillTask, mergeTask>>

\* 50 ms later: the next 'segmentRegion' event
BgNext(ctx, maskCtx, mainCtx, t) ==
    /\ ClockReads(t)
    /\ bgTask.active /\ bgTask.parsed
    /\ bgTask.queue # <<>>
    /\ CanSave(listenerEnv)
    /\ Len(layers) < MaxLayers
    /\ LET out == extractRegion(Head(bgTask.queue), ctx, maskCtx, mainCtx)
       IN  /\ CommitExtraction(out, listenerEnv, [history |-> history, historyIndex |-> historyIndex], t)
           /\ toast' = IF out.layer THEN Toast("Layer Created") ELSE NoToast
    /\ bgTask' = [bgTask EXCEPT !.queue = Tail(bgTask.queue)]
    /\ UNCHANGED <<pageVars, canvasVars, detectTask, fillTask, mergeTask>>

\* 50 ms after the last event: the success toast and the finally block
BgDone ==
    /\ bgTask.active /\ bgTask.parsed
    /\ bgTask.queue = <<>>
    /\ toast' = Toast("Segmented features")
    /\ isProcessing' = FALSE
    /\ bgTask' = IdleBg
    /\ UNCHANGED <<docVars, selectedLayerIds, detectedRegions, imageType, isSegmenting,
                   isMerging, isFillingContent, hasSelection, canvasVars,
                   detectTask, fillTask, mergeTask, now>>

(***************************************************************************)
(* KonvaCanvas: lasso selection                                            *)
(***************************************************************************)
\* setImageSize in the image effect: scale = min(width / w, height / h)
ImageSize(img) ==
    IF StageWidth * img.h <= StageHeight * img.w
    THEN [width |-> StageWidth, height |-> (img.h * StageWidth) \div img.w]
    ELSE [width |-> (img.w * StageHeight) \div img.h, height |-> StageHeight]

\* getImagePosition
ImagePosition(img) ==
    [offsetX |-> (StageWidth - ImageSize(img).width) \div 2,
     offsetY |-> (StageHeight - ImageSize(img).height) \div 2]

isPointInImage(point) ==
    LET x == point[1] - ImagePosition(imageElement).offsetX
        y == point[2] - ImagePosition(imageElement).offsetY
    IN  x >= 0 /\ x <= ImageSize(imageElement).width /\ y >= 0 /\ y <= ImageSize(imageElement).height

\* handleDrawStart in lasso mode
handleDrawStart(pos) ==
    /\ ~IsNull(imageElement)
    /\ isPointInImage(pos)
    /\ selection' = <<pos>>
    /\ hasSelection' = TRUE
    /\ toast' = NoToast
    /\ UNCHANGED <<docVars, selectedLayerIds, detectedRegions, imageType, isSegmenting,
                   isMerging, isFillingContent, isProcessing, imageElement, maskImages,
                   listenerEnv, taskVars, now>>

\* handleDrawMove in lasso mode, while the pointer is down
handleDrawMove(pos) ==
    /\ ~IsNull(imageElement)
    /\ isPointInImage(pos)
    /\ selection # <<>>
    /\ Len(selection) < MaxLassoPoints
    /\ selection' = Append(selection, pos)
    /\ toast' = NoToast
    /\ UNCHANGED <<docVars, pageVars, imageElement, maskImages, listenerEnv, taskVars,
                   now>>

\* winding number of the closed path `poly` around the point s; all
\* coordinates are integers on a common scale
RECURSIVE Winding(_, _, _)
Winding(poly, s, i) ==
    IF i > Len(poly) THEN 0
    ELSE LET a == poly[i]
             b == poly[IF i = Len(poly) THEN 1 ELSE i + 1]
             side == (b[1] - a[1]) * (s[2] - a[2]) - (s[1] - a[1]) * (b[2] - a[2])
             turn == IF a[2] <= s[2] /\ b[2] > s[2] /\ side > 0 THEN 1
                     ELSE IF a[2] > s[2] /\ b[2] <= s[2] /\ side < 0 THEN -1
                     ELSE 0
         IN  turn + Winding(poly, s, i + 1)

\* maskCtx.fill() of the path through the points after
\* x = (points[i] - offsetX) * scaleX, y = (points[i+1] - offsetY) * scaleY
\* with scaleX = originalWidth / imageSize.width: the number of covered
\* coverage samples of the native pixel (x, y).  Path and samples are
\* compared with x scaled by 2 * SubSamples * imageSize.width and y by
\* 2 * SubSamples * imageSize.height, which leaves every side test unchanged.
Coverage(points, img, x, y) ==
    LET size == ImageSize(img)
        pos == ImagePosition(img)
        path == [i \in 1..Len(points) |->
                    << (points[i][1] - pos.offsetX) * img.w * 2 * SubSamples,
                       (points[i][2] - pos.offsetY) * img.h * 2 * SubSamples >>]
        Sample(k, l) == << (2 * SubSamples * x + 2 * k + 1) * size.width,
                           (2 * SubSamples * y + 2 * l + 1) * size.height >>
    IN  Cardinality({kl \in (0..(SubSamples - 1)) \X (0..(SubSamples - 1)) :
                        Winding(path, Sample(kl[1], kl[2]), 1) # 0})

\* a fill without anti-aliasing: white only where the path covers the whole
\* pixel
LassoMaskData_WholePixels(points, img) ==
    MakeImage(img.w, img.h,
        [i \in 1..(img.w * img.h) |->
            LET c == Coverage(points, img, (i - 1) % img.w, (i - 1) \div img.w)
            IN  IF c < SubSamples * SubSamples THEN Pixel(0, 0, 0, 0)
                ELSE Pixel(255, 255, 255, 255)])

\* maskCtx.getImageData after the fill: white where the path covers the
\* pixel, transparent black elsewhere
LassoMaskData(points, img) ==
    MakeImage(img.w, img.h,
        [i \in 1..(img.w * img.h) |->
            LET c == Coverage(points, img, (i - 1) % img.w, (i - 1) \div img.w)
            IN  IF c = 0 THEN Pixel(0, 0, 0, 0)
                ELSE CanvasPixel(Pixel(255, 255, 255, (255 * c) \div (SubSamples * SubSamples)))])

LassoType == <<"L","a","s","s","o"," ","S","e","l","e","c","t","i","o","n">>

\* extractLassoSelection: what it hands to onExtract and to onImageUpdate
extractLassoSelection(maskCtx, resultCtx, mainCtx) ==
    IF selection = <<>> \/ IsNull(imageElement) THEN NoExtraction
    ELSE IF ~maskCtx THEN NoExtraction
    ELSE IF ~resultCtx THEN NoExtraction
    ELSE LET maskData == LassoMaskData(selection, imageElement)
             imageData == GetImageData(imageElement)
             layerData == MakeImage(imageData.w, imageData.h,
                              [i \in 1..Len(imageData.px) |->
                                  IF maskData.px[i].r = 0
                                  THEN [imageData.px[i] EXCEPT !.a = 0]
                                  ELSE imageData.px[i]])
             mainData == MakeImage(imageData.w, imageData.h,
                              [i \in 1..Len(imageData.px) |->
                                  IF maskData.px[i].r > 0
                                  THEN [imageData.px[i] EXCEPT !.a = 0]
                                  ELSE imageData.px[i]])
         IN  [layer |-> TRUE, base |-> mainCtx, layerUrl |-> ToDataURL(layerData),
              baseUrl |-> ToDataURL(mainData), type |-> LassoType,
              position |-> FullPosition(imageElement.w, imageElement.h)]

\* the guard of window.extractLassoSelection
ValidLasso(points) == points # <<>> /\ ~(2 * Len(points) < MinLassoScalars)

\* handleSegmentSelection: calls the function the canvas registered on
\* window, then toasts.  The button is disabled while hasSelection is false.
handleSegmentSelection(maskCtx, resultCtx, mainCtx, t) ==
    /\ ClockReads(t)
    /\ hasSelection
    /\ IF ~ValidLasso(selection)
       THEN UNCHANGED <<docVars, selection, hasSelection, now>>
       ELSE LET out == extractLassoSelection(maskCtx, resultCtx, mainCtx)
            IN  /\ Len(layers) < MaxLayers
                /\ CanSave(DocEnv)
                /\ CommitExtraction(out, DocEnv, [history |-> history, historyIndex |-> historyIndex], t)
                /\ selection' = IF out.layer THEN <<>> ELSE selection
                /\ hasSelection' = IF out.layer THEN FALSE ELSE hasSelection
    /\ toast' = Toast("Selection segmented successfully")
    /\ UNCHANGED <<selectedLayerIds, detectedRegions, imageType, isSegmenting, isMerging,
                   isFillingContent, isProcessing, imageElement, maskImages, listenerEnv,
                   taskVars>>

(***************************************************************************)
(* LayerPanel: the panel's own state (drag and rename) and the callbacks   *)
(* it invokes.  The component that owns the layer list and implements the  *)
(* callbacks is not part of the sources; its handlers follow the layer     *)
(* stack rules of the specification (spec.md, 4.5 and invariant 7).        *)
(***************************************************************************)
\* useState<number | null>(null): null is -1
NoIndex == 0 - 1

\* useState<string | null>(null): null is 0, layer ids are positive
NoLayer == 0

PanelLayer(id, isBaseLayer) ==
    [id |-> id, name |-> "Layer", visible |-> TRUE, locked |-> FALSE, isBaseLayer |-> isBaseLayer]

\* 0-based index of a row, as actualIndex
RowIndexes == 0..(Len(panelLayers) - 1)

RowAt(index) == panelLayers[index + 1]

\* a row whose drag handlers never react
RowDraggable_Always(layer) == TRUE

\* draggable={!layer.isBaseLayer}, and the same test in front of the row's
\* onDragStart, onDragOver and onDrop
RowDraggable(layer) == ~layer.isBaseLayer

\* {!layer.isBaseLayer && (...)}: the duplicate, download and delete buttons
HasActionButtons(layer) == ~layer.isBaseLayer

\* what no step of the panel changes
panelFrame == UNCHANGED <<segmentArtVars, apiVars, heapVars, maskVars, brushVars>>

handleDragStart(index) ==
    /\ index \in RowIndexes
    /\ RowDraggable(RowAt(index))
    /\ draggedIndex' = index
    /\ UNCHANGED <<panelLayers, dragOverIndex, editingLayerId, editingName>>
    /\ panelFrame

handleDragOver(index) ==
    /\ index \in RowIndexes
    /\ RowDraggable(RowAt(index))
    /\ dragOverIndex' = index
    /\ UNCHANGED <<panelLayers, draggedIndex, editingLayerId, editingName>>
    /\ panelFrame

\* the owner's onLayerReorder: moves the layer at fromIndex to toIndex; a
\* move of or onto the base layer, or from an index without a layer, is
\* rejected
onLayerReorder(ls, fromIndex, toIndex) ==
    IF \/ fromIndex \notin 0..(Len(ls) - 1)
       \/ toIndex \notin 0..(Len(ls) - 1)
       \/ ls[fromIndex + 1].isBaseLayer
       \/ ls[toIndex + 1].isBaseLayer
    THEN ls
    ELSE LET moved == ls[fromIndex + 1]
             rest == [i \in 1..(Len(ls) - 1) |-> IF i <= fromIndex THEN ls[i] ELSE ls[i + 1]]
         IN  [i \in 1..Len(ls) |->
                IF i <= toIndex THEN rest[i]
                ELSE IF i = toIndex + 1 THEN moved
                ELSE rest[i - 1]]

handleDrop(toIndex) ==
    /\ toIndex \in RowIndexes
    /\ RowDraggable(RowAt(toIndex))
    /\ IF draggedIndex # NoIndex /\ draggedIndex # toIndex
       THEN panelLayers' = onLayerReorder(panelLayers, draggedIndex, toIndex)
       ELSE UNCHANGED panelLayers
    /\ draggedIndex' = NoIndex
    /\ dragOverIndex' = NoIndex
    /\ UNCHANGED <<editingLayerId, editingName>>
    /\ panelFrame

handleDragEnd ==
    /\ draggedIndex # NoIndex \/ dragOverIndex # NoIndex
    /\ draggedIndex' = NoIndex
    /\ dragOverIndex' = NoIndex
    /\ UNCHANGED <<panelLayers, editingLayerId, editingName>>
    /\ panelFrame

\* the owner's onLayerDelete: the base layer is never removed
onLayerDelete(ls, layerId) ==
    SelectSeq(ls, LAMBDA l : l.id # layerId \/ l.isBaseLayer)

\* the delete button of a row: shown when the row has action buttons,
\* disabled while the layer is locked
ClickDelete(index) ==
    /\ index \in RowIndexes
    /\ HasActionButtons(RowAt(index))
    /\ ~RowAt(index).locked
    /\ panelLayers' = onLayerDelete(panelLayers, RowAt(index).id)
    /\ UNCHANGED <<draggedIndex, dragOverIndex, editingLayerId, editingName>>
    /\ panelFrame

\* an id no layer of the list has
FreshId(ls) == CHOOSE id \in 1..(Len(ls) + 1) : \A i \in 1..Len(ls) : ls[i].id # id

\* the owner's onLayerDuplicate: a copy with a new id right above the
\* original; the copy of a layer is never a base layer
onLayerDuplicate(ls, layerId) ==
    IF \A i \in 1..Len(ls) : ls[i].id # layerId THEN ls
    ELSE LET at == CHOOSE i \in 1..Len(ls) : ls[i].id = layerId
             copy == [ls[at] EXCEPT !.id = FreshId(ls), !.isBaseLayer = FALSE]
         IN  [i \in 1..(Len(ls) + 1) |->
                IF i <= at THEN ls[i] ELSE IF i = at + 1 THEN copy ELSE ls[i - 1]]

\* the duplicate button of a row
ClickDuplicate(index) ==
    /\ index \in RowIndexes
    /\ Len(panelLayers) < MaxPanelLayers
    /\ HasActionButtons(RowAt(index))
    /\ ~RowAt(index).locked
    /\ panelLayers' = onLayerDuplicate(panelLayers, RowAt(index).id)
    /\ UNCHANGED <<draggedIndex, dragOverIndex, editingLayerId, editingName>>
    /\ panelFrame

\* a field of the layer `layerId` replaced by the owner
SetField(ls, layerId, field, value) ==
    [i \in 1..Len(ls) |-> IF ls[i].id = layerId THEN [ls[i] EXCEPT ![field] = value] ELSE ls[i]]

\* the eye button: onLayerVisibilityToggle
ClickVisibility(index) ==
    /\ index \in RowIndexes
    /\ panelLayers' = SetField(panelLayers, RowAt(index).id, "visible", ~RowAt(index).visible)
    /\ UNCHANGED <<draggedIndex, dragOverIndex, editingLayerId, editingName>>
    /\ panelFrame

\* the lock button: onLayerLockToggle
ClickLock(index) ==
    /\ index \in RowIndexes
    /\ panelLayers' = SetField(panelLayers, RowAt(index).id, "locked", ~RowAt(index).locked)
    /\ UNCHANGED <<draggedIndex, dragOverIndex, editingLayerId, editingName>>
    /\ panelFrame

\* a double click on the name of an unlocked layer
handleStartEdit(index) ==
    /\ index \in RowIndexes
    /\ ~RowAt(index).locked
    /\ editingLayerId' = RowAt(index).id
    /\ editingName' = RowAt(index).name
    /\ UNCHANGED <<panelLayers, draggedIndex, dragOverIndex>>
    /\ panelFrame

\* typing in the name input
TypeName(text) ==
    /\ editingLayerId # NoLayer
    /\ editingName # text
    /\ editingName' = text
    /\ UNCHANGED <<panelLayers, draggedIndex, dragOverIndex, editingLayerId>>
    /\ panelFrame

\* Enter or blur of the name input; the typed names carry no white space,
\* so trim() leaves them as they are
handleFinishEdit ==
    /\ editingLayerId # NoLayer
    /\ IF editingName # ""
       THEN panelLayers' = SetField(panelLayers, editingLayerId, "name", editingName)
       ELSE UNCHANGED panelLayers
    /\ editingLayerId' = NoLayer
    /\ editingName' = ""
    /\ UNCHANGED <<draggedIndex, dragOverIndex>>
    /\ panelFrame

\* the panel is not mounted
PanelIdle ==
    /\ panelLayers = <<>>
    /\ draggedIndex = NoIndex
    /\ dragOverIndex = NoIndex
    /\ editingLayerId = NoLayer
    /\ editingName = ""

\* Escape in the name input
CancelEdit ==
    /\ editingLayerId # NoLayer
    /\ editingLayerId' = NoLayer
    /\ UNCHANGED <<panelLayers, draggedIndex, dragOverIndex, editingName>>
    /\ panelFrame

(***************************************************************************)
(* api.ts: the request log, the rate limiter and the retry loops of        *)
(* detectObjects, segmentImage, detectImageType, segmentLandscape and      *)
(* contentAwareFill.  Date.now() is the variable now, in milliseconds.     *)
(***************************************************************************)
\* the functions that call waitForRateLimit and addRequest before they fetch
LimitedApis == {"detectObjects", "segmentImage", "segmentLandscape", "detectImageType"}

Apis == LimitedApis \cup {"contentAwareFill"}

\* the errors an attempt can end with, by class
RetryableErrors == {"loading", "rateLimited"}

FatalErrors == {"auth", "quota", "policy", "invalidResponse"}

\* fetch itself rejects
ApiErrors == RetryableErrors \cup FatalErrors \cup {"network"}

Callers == 1..NumCallers

\* the step of the clock explored: half a request window
TickMs == RequestWindow \div 2

\* `let retries = ...` of the function
InitialRetries(api) == IF api = "detectImageType" THEN DetectTypeRetries ELSE MaxRetries

IdleCall == [pc |-> "idle", api |-> "", retries |-> 0, wakeAt |-> 0]

\* no call settled in the last step
NoOutcome == [caller |-> 0, api |-> "", kind |-> "none", value |-> "", attempts |-> 0]

\* The call of caller c settles.  attempts is the number of times the loop
\* body has run: `retries` starts at InitialRetries and loses one per round.
Outcome(c, kind, value) ==
    [caller |-> c, api |-> calls[c].api, kind |-> kind, value |-> value,
     attempts |-> InitialRetries(calls[c].api) - calls[c].retries + 1]

\* what a successful attempt returns
ReturnValues(api) == IF api = "detectImageType" THEN {"face", "landscape"} ELSE {"result"}

\* canMakeRequest: the log it leaves behind
RecentRequests(log, t) == SelectSeq(log, LAMBDA time : t - time < RequestWindow)

\* canMakeRequest: its answer
CanMakeRequest(log, t) == Len(RecentRequests(log, t)) < MaxRequestsPerMinute

\* The top of the retry loop up to its first suspension: waitForRateLimit
\* evaluates canMakeRequest at once and either returns (the caller's await
\* resumes in a later microtask, before any timer) or sleeps 5 seconds.
\* contentAwareFill has no limiter and goes on to its fetch.
EnterLoop(c, api, retries) ==
    IF api \in LimitedApis
    THEN /\ requests' = RecentRequests(requests, now)
         /\ calls' = [calls EXCEPT ![c] =
                         IF CanMakeRequest(requests, now)
                         THEN [pc |-> "admitted", api |-> api, retries |-> retries, wakeAt |-> 0]
                         ELSE [pc |-> "sleeping", api |-> api, retries |-> retries,
                               wakeAt |-> now + RateLimitSleep]]
    ELSE /\ calls' = [calls EXCEPT ![c] =
                         [pc |-> "fetching", api |-> api, retries |-> retries, wakeAt |-> 0]]
         /\ UNCHANGED requests

apiFrame ==
    UNCHANGED <<docVars, pageVars, canvasVars, taskVars, toast, panelVars, heapVars, maskVars,
                brushVars>>

\* a caller invokes one of the functions (its API key is valid)
CallApi(c, api) ==
    /\ calls[c].pc = "idle"
    /\ EnterLoop(c, api, InitialRetries(api))
    /\ apiOutcome' = NoOutcome
    /\ UNCHANGED now
    /\ apiFrame

\* the 5 second timer of waitForRateLimit fires: canMakeRequest again
WakeUp(c) ==
    /\ calls[c].pc = "sleeping"
    /\ now >= calls[c].wakeAt
    /\ EnterLoop(c, calls[c].api, calls[c].retries)
    /\ apiOutcome' = NoOutcome
    /\ UNCHANGED now
    /\ apiFrame

\* the await of waitForRateLimit resumes: addRequest, then the fetch is sent
AddRequest(c) ==
    /\ calls[c].pc = "admitted"
    /\ requests' = Append(requests, now)
    /\ calls' = [calls EXCEPT ![c].pc = "fetching"]
    /\ apiOutcome' = NoOutcome
    /\ UNCHANGED now
    /\ apiFrame

\* the attempt succeeds and the function returns
FetchSucceeded(c) ==
    /\ calls[c].pc = "fetching"
    /\ calls' = [calls EXCEPT ![c] = IdleCall]
    /\ \E value \in ReturnValues(calls[c].api) : apiOutcome' = Outcome(c, "returned", value)
    /\ UNCHANGED <<requests, now>>
    /\ apiFrame

\* the catch block without the tests of `retries > 1`
FetchFailed_Unbounded(c, error) ==
    /\ calls[c].pc = "fetching"
    /\ LET call == calls[c]
           retryDelay ==
               IF call.api = "detectImageType"
               THEN IF error = "loading" THEN 3000 ELSE 1000
               ELSE IF call.api = "detectObjects" THEN RetryDelay
               ELSE IF call.api = "contentAwareFill"
               THEN IF error = "rateLimited" THEN 2 * RetryDelay ELSE RetryDelay
               ELSE IF error = "loading" THEN 2 * RetryDelay ELSE RetryDelay
           retried ==
               IF call.api = "detectImageType"
               THEN error \in {"loading", "network", "invalidResponse"}
               ELSE TRUE
       IN  /\ calls' = [calls EXCEPT ![c] =
                            IF retried
                            THEN [call EXCEPT !.pc = "delaying", !.retries = call.retries - 1,
                                              !.wakeAt = now + retryDelay]
                            ELSE IdleCall]
           /\ apiOutcome' = IF retried THEN NoOutcome
                            ELSE IF call.api = "detectImageType"
                                 THEN Outcome(c, "returned", "landscape")
                                 ELSE Outcome(c, "thrown", error)
    /\ UNCHANGED <<requests, now>>
    /\ apiFrame

\* The attempt throws an error of class `error`: the catch block.  In every
\* function an error of any class is retried while retries > 1 (the tests
\* on the message only choose the delay); detectImageType retries a loading
\* answer, returns 'landscape' on any other failed answer and retries a
\* thrown error (fetch rejects, the body is not the JSON expected) until its
\* retries are used up, then returns 'landscape'.
FetchFailed(c, error) ==
    /\ calls[c].pc = "fetching"
    /\ LET call == calls[c]
           retryDelay ==
               IF call.api = "detectImageType"
               THEN IF error = "loading" THEN 3000 ELSE 1000
               ELSE IF call.api = "detectObjects" THEN RetryDelay
               ELSE IF call.api = "contentAwareFill"
               THEN IF error = "rateLimited" THEN 2 * RetryDelay ELSE RetryDelay
               ELSE IF error = "loading" THEN 2 * RetryDelay ELSE RetryDelay
           retried ==
               IF call.api = "detectImageType"
               THEN error \in {"loading", "network", "invalidResponse"} /\ call.retries > 1
               ELSE call.retries > 1
       IN  /\ calls' = [calls EXCEPT ![c] =
                            IF retried
                            THEN [call EXCEPT !.pc = "delaying", !.retries = call.retries - 1,
                                              !.wakeAt = now + retryDelay]
                            ELSE IdleCall]
           /\ apiOutcome' = IF retried THEN NoOutcome
                            ELSE IF call.api = "detectImageType"
                                 THEN Outcome(c, "returned", "landscape")
                                 ELSE Outcome(c, "thrown", error)
    /\ UNCHANGED <<requests, now>>
    /\ apiFrame

\* the delay before a retry is over: the loop goes round
RetryDue(c) ==
    /\ calls[c].pc = "delaying"
    /\ now >= calls[c].wakeAt
    /\ EnterLoop(c, calls[c].api, calls[c].retries)
    /\ apiOutcome' = NoOutcome
    /\ UNCHANGED now
    /\ apiFrame

\* time passes; a caller whose await is about to resume runs first
\* (microtasks run before any timer or later event)
Tick ==
    /\ \A c \in Callers : calls[c].pc # "admitted"
    /\ now + TickMs <= 1 + MaxTicks * TickMs
    /\ now' = now + TickMs
    /\ apiOutcome' = NoOutcome
    /\ UNCHANGED <<requests, calls>>
    /\ apiFrame

ApiIdle ==
    /\ requests = <<>>
    /\ calls = [c \in Callers |-> IdleCall]
    /\ apiOutcome = NoOutcome

(***************************************************************************)
(* SegmentArt: the document state as JavaScript objects                    *)
(*                                                                         *)
(* Arrays, layer objects and history snapshots are cells of a heap and the *)
(* state holds references to them: two holders of one reference see each   *)
(* other's writes.  A cell is allocated where the code builds a new array  *)
(* or object ([...prev, x], filter, map, {...l}, JSON.parse, an object     *)
(* literal).  Data URLs are strings, hence values.  The history array is   *)
(* rebuilt by slice on every save and is kept by its value, a sequence of  *)
(* snapshot references.                                                    *)
(***************************************************************************)
Refs == 1..MaxObjects

NullRef == 0

FreeCell == [kind |-> "free"]

ArrayCell(items) == [kind |-> "array", items |-> items]

\* a Layer object: the fields the handlers below read or write
LayerCell(id, visible) == [kind |-> "layer", id |-> id, visible |-> visible]

\* a HistoryState object { image, layers }
SnapshotCell(image, layersRef) == [kind |-> "snapshot", image |-> image, layers |-> layersRef]

FreeRefs(h) == {r \in Refs : h[r].kind = "free"}

\* the model stops allocating when fewer than n cells are left
Room(n) == Cardinality(FreeRefs(heap)) >= n

\* a new object: the heap with the cell in its first free place, and the
\* reference to it
New(h, cell) ==
    LET r == CHOOSE x \in FreeRefs(h) : \A y \in FreeRefs(h) : x <= y
    IN  [heap |-> [h EXCEPT ![r] = cell], ref |-> r]

\* the layer objects of an array, in order
LayerList(h, arrayRef) ==
    [i \in 1..Len(h[arrayRef].items) |-> h[h[arrayRef].items[i]]]

HeapLayerIds(h, arrayRef) == {LayerList(h, arrayRef)[i].id : i \in 1..Len(h[arrayRef].items)}

\* what a snapshot stores: its image and its layer list
SnapshotView(h, r) == [image |-> h[r].image, layers |-> LayerList(h, h[r].layers)]

\* `layer-${Date.now()}` / `merged-${Date.now()}`, the clock taken as
\* strictly increasing: an id no layer object has had
FreshLayerId(h) ==
    LET used == {h[r].id : r \in {x \in Refs : h[x].kind = "layer"}}
    IN  IF used = {} THEN 1 ELSE 1 + (CHOOSE x \in used : \A y \in used : x >= y)

RECURSIVE CopyItems(_, _)
\* JSON.parse(JSON.stringify(...)) of the elements: every layer object anew
CopyItems(h, items) ==
    IF items = <<>>
    THEN [heap |-> h, items |-> <<>>]
    ELSE LET first == New(h, h[Head(items)])
             rest == CopyItems(first.heap, Tail(items))
         IN  [heap |-> rest.heap, items |-> <<first.ref>> \o rest.items]

\* JSON.parse(JSON.stringify(layers)): a new array of new layer objects
DeepCopy(h, arrayRef) ==
    LET copied == CopyItems(h, h[arrayRef].items)
    IN  New(copied.heap, ArrayCell(copied.items))

\* the closure of the current render
HeapEnv ==
    [layers |-> heapLayers, image |-> heapImage,
     history |-> heapHistory, historyIndex |-> heapHistoryIndex]

\* saveToHistory on the closure env: the heap with the new snapshot, and the
\* new (history, historyIndex)
HeapSaveToHistory(h, env) ==
    LET copy == DeepCopy(h, env.layers)
        newState == New(copy.heap, SnapshotCell(env.image, copy.ref))
        newHistory == Append(SliceTo(env.history, env.historyIndex + 1), newState.ref)
    IN  [heap |-> newState.heap, history |-> newHistory,
         historyIndex |-> Len(newHistory) - 1]

\* the cells a save of env allocates: the array, its layers, the snapshot
SaveCells(env) == Len(heap[env.layers].items) + 2

NoHeapTask == [kind |-> "none"]

heapFrame == UNCHANGED <<segmentArtVars, panelVars, apiVars, maskVars, brushVars>>

\* handleSegment: saveToHistory(); setLayers(prev => [...prev, newLayer])
HeapHandleSegment ==
    /\ heapLayers # NullRef
    /\ Len(heap[heapLayers].items) < MaxLayers
    /\ Room(SaveCells(HeapEnv) + 2)
    /\ LET saved == HeapSaveToHistory(heap, HeapEnv)
           newLayer == New(saved.heap, LayerCell(FreshLayerId(heap), TRUE))
           appended == New(newLayer.heap,
                           ArrayCell(Append(heap[heapLayers].items, newLayer.ref)))
       IN  /\ heap' = appended.heap
           /\ heapLayers' = appended.ref
           /\ heapHistory' = saved.history
           /\ heapHistoryIndex' = saved.historyIndex
    /\ UNCHANGED <<heapImage, heapTask>>
    /\ heapFrame

\* deleteLayer: saveToHistory(); setLayers(prev => prev.filter(...))
HeapDeleteLayer(layerId) ==
    /\ heapLayers # NullRef
    /\ layerId \in HeapLayerIds(heap, heapLayers)
    /\ Room(SaveCells(HeapEnv) + 1)
    /\ LET saved == HeapSaveToHistory(heap, HeapEnv)
           filtered == New(saved.heap,
                           ArrayCell(SelectSeq(heap[heapLayers].items,
                                               LAMBDA r : heap[r].id # layerId)))
       IN  /\ heap' = filtered.heap
           /\ heapLayers' = filtered.ref
           /\ heapHistory' = saved.history
           /\ heapHistoryIndex' = saved.historyIndex
    /\ UNCHANGED <<heapImage, heapTask>>
    /\ heapFrame

\* the toggle written on the layer object itself
HeapToggleLayerVisibility_InPlace(layerId) ==
    /\ heapLayers # NullRef
    /\ layerId \in HeapLayerIds(heap, heapLayers)
    /\ LET items == heap[heapLayers].items
           hit == CHOOSE i \in 1..Len(items) : heap[items[i]].id = layerId
       IN  heap' = [heap EXCEPT ![items[hit]].visible = ~@]
    /\ UNCHANGED <<heapLayers, heapImage, heapHistory, heapHistoryIndex, heapTask>>
    /\ heapFrame

\* toggleLayerVisibility: setLayers(prev => prev.map(l =>
\*   l.id === layerId ? { ...l, visible: !l.visible } : l))
HeapToggleLayerVisibility(layerId) ==
    /\ heapLayers # NullRef
    /\ layerId \in HeapLayerIds(heap, heapLayers)
    /\ Room(2)
    /\ LET items == heap[heapLayers].items
           hit == CHOOSE i \in 1..Len(items) : heap[items[i]].id = layerId
           toggled == New(heap, [heap[items[hit]] EXCEPT !.visible = ~@])
           mapped == New(toggled.heap,
                         ArrayCell([i \in 1..Len(items) |->
                                       IF i = hit THEN toggled.ref ELSE items[i]]))
       IN  /\ heap' = mapped.heap
           /\ heapLayers' = mapped.ref
    /\ UNCHANGED <<heapImage, heapHistory, heapHistoryIndex, heapTask>>
    /\ heapFrame

\* handleUndo: setUploadedImage(state.image); setLayers(state.layers)
HeapHandleUndo ==
    /\ heapHistoryIndex > 0
    /\ LET newIndex == heapHistoryIndex - 1
           state == heap[heapHistory[newIndex + 1]]
       IN  /\ heapImage' = state.image
           /\ heapLayers' = state.layers
           /\ heapHistoryIndex' = newIndex
    /\ UNCHANGED <<heap, heapHistory, heapTask>>
    /\ heapFrame

\* handleRedo
HeapHandleRedo ==
    /\ heapHistoryIndex < Len(heapHistory) - 1
    /\ LET newIndex == heapHistoryIndex + 1
           state == heap[heapHistory[newIndex + 1]]
       IN  /\ heapImage' = state.image
           /\ heapLayers' = state.layers
           /\ heapHistoryIndex' = newIndex
    /\ UNCHANGED <<heap, heapHistory, heapTask>>
    /\ heapFrame

\* mergeLayers up to its first await: saveToHistory() on the closure
HeapMergeLayers(selected) ==
    /\ heapLayers # NullRef
    /\ heapTask = NoHeapTask
    /\ selected \subseteq HeapLayerIds(heap, heapLayers)
    /\ Cardinality(selected) >= MinMergeSelection
    /\ Room(SaveCells(HeapEnv))
    /\ LET saved == HeapSaveToHistory(heap, HeapEnv)
       IN  /\ heap' = saved.heap
           /\ heapHistory' = saved.history
           /\ heapHistoryIndex' = saved.historyIndex
    /\ heapTask' = [kind |-> "merge", selected |-> selected]
    /\ UNCHANGED <<heapLayers, heapImage>>
    /\ heapFrame

\* mergeLayers after its awaits:
\* setLayers(prev => [...prev.filter(l => !selectedLayerIds.has(l.id)), mergedLayer])
HeapMergeResolved ==
    /\ heapTask.kind = "merge"
    /\ Room(2)
    /\ LET mergedLayer == New(heap, LayerCell(FreshLayerId(heap), TRUE))
           kept == SelectSeq(heap[heapLayers].items,
                             LAMBDA r : heap[r].id \notin heapTask.selected)
           merged == New(mergedLayer.heap, ArrayCell(Append(kept, mergedLayer.ref)))
       IN  /\ heap' = merged.heap
           /\ heapLayers' = merged.ref
    /\ heapTask' = NoHeapTask
    /\ UNCHANGED <<heapImage, heapHistory, heapHistoryIndex>>
    /\ heapFrame

\* handleContentAwareFill up to its first await: the closure is kept
HeapHandleContentAwareFill ==
    /\ heapLayers # NullRef
    /\ heapTask = NoHeapTask
    /\ heapTask' = [kind |-> "fill", env |-> HeapEnv]
    /\ UNCHANGED <<heap, heapLayers, heapImage, heapHistory, heapHistoryIndex>>
    /\ heapFrame

\* handleContentAwareFill after the fill: saveToHistory() on the closure,
\* then the filled image, a string no state has held
HeapFillResolved ==
    /\ heapTask.kind = "fill"
    /\ Room(SaveCells(heapTask.env))
    /\ LET saved == HeapSaveToHistory(heap, heapTask.env)
       IN  /\ heap' = saved.heap
           /\ heapHistory' = saved.history
           /\ heapHistoryIndex' = saved.historyIndex
    /\ heapImage' = 1 + Max(heapImage, heapTask.env.image)
    /\ heapTask' = NoHeapTask
    /\ UNCHANGED heapLayers
    /\ heapFrame

\* either handler failing: the catch / finally blocks touch no document state
HeapTaskRejected ==
    /\ heapTask # NoHeapTask
    /\ heapTask' = NoHeapTask
    /\ UNCHANGED <<heap, heapLayers, heapImage, heapHistory, heapHistoryIndex>>
    /\ heapFrame

\* no page is mounted
HeapIdle ==
    /\ heap = [r \in Refs |-> FreeCell]
    /\ heapLayers = NullRef
    /\ heapImage = 0
    /\ heapHistory = <<>>
    /\ heapHistoryIndex = 0 - 1
    /\ heapTask = NoHeapTask

\* an image uploaded and the first snapshot taken by the history effect:
\* useState([]) and the literal { image, layers: [] } are two arrays
HeapUploaded ==
    /\ heap = [r \in Refs |->
                 IF r = 1 THEN ArrayCell(<<>>)
                 ELSE IF r = 2 THEN ArrayCell(<<>>)
                 ELSE IF r = 3 THEN SnapshotCell(1, 2)
                 ELSE FreeCell]
    /\ heapLayers = 1
    /\ heapImage = 1
    /\ heapHistory = <<3>>
    /\ heapHistoryIndex = 0
    /\ heapTask = NoHeapTask

(***************************************************************************)
(* api.ts: mask geometry                                                   *)
(*                                                                         *)
(* An ImageData is an image [w, h, px] with w, h >= 1.  A JavaScript       *)
(* number is [nan, v]: NaN, or the integer v.  A quotient that need not be *)
(* an integer is kept as the fraction [num, den].                          *)
(***************************************************************************)
Num(v) == [nan |-> FALSE, v |-> v]

NaN == [nan |-> TRUE, v |-> 0]

\* a * b and a + b: NaN absorbs
Times(a, b) == IF a.nan \/ b.nan THEN NaN ELSE Num(a.v * b.v)

Plus(a, b) == IF a.nan \/ b.nan THEN NaN ELSE Num(a.v + b.v)

\* a store into a Uint8ClampedArray: NaN becomes 0, the rest is clamped
ToUint8Clamped(a) == IF a.nan THEN 0 ELSE Min(255, Max(0, a.v))

Fraction(num, den) == [num |-> num, den |-> den]

\* resolve({ xmin: 0, ymin: 0, xmax: 1, ymax: 1 })
FullBounds ==
    [xmin |-> Fraction(0, 1), ymin |-> Fraction(0, 1),
     xmax |-> Fraction(1, 1), ymax |-> Fraction(1, 1)]

\* the pixel everything is painted over
InMask_Always(alpha) == alpha >= 0

\* if (alpha > 0)
InMask(alpha) == alpha > 0

RECURSIVE ScanBounds(_, _, _)
\* the two loops over y and x, pixel i of the row-major order onwards:
\* acc is (xmin, ymin, xmax, ymax, hasPixels)
ScanBounds(data, i, acc) ==
    IF i > Len(data.px)
    THEN acc
    ELSE LET x == (i - 1) % data.w
             y == (i - 1) \div data.w
         IN  ScanBounds(data, i + 1,
                 IF InMask(data.px[i].a)
                 THEN [xmin |-> Min(acc.xmin, x), ymin |-> Min(acc.ymin, y),
                       xmax |-> Max(acc.xmax, x), ymax |-> Max(acc.ymax, y),
                       hasPixels |-> TRUE]
                 ELSE acc)

LoadOutcomes == {"load", "error", "noContext"}

\* calculateBoundsFromMaskImage: what the promise resolves with.  outcome is
\* what the browser does with the data URL: img.onload, img.onerror, or
\* onload with getContext('2d') returning null.
CalculateBoundsFromMaskImage(img, outcome) ==
    IF outcome = "error" \/ outcome = "noContext"
    THEN FullBounds
    ELSE LET imageData == GetImageData(img)
             found == ScanBounds(imageData, 1,
                                 [xmin |-> img.w, ymin |-> img.h, xmax |-> 0, ymax |-> 0,
                                  hasPixels |-> FALSE])
         IN  IF ~found.hasPixels
             THEN FullBounds
             ELSE [xmin |-> Fraction(found.xmin, img.w),
                   ymin |-> Fraction(found.ymin, img.h),
                   xmax |-> Fraction(found.xmax, img.w),
                   ymax |-> Fraction(found.ymax, img.h)]

\* the 3x3 neighbourhood of (x, y) inside the image, as pixel indexes
Neighbourhood(data, x, y) ==
    {ny * data.w + nx + 1 : <<nx, ny>> \in
        {<<x + dx, y + dy>> : <<dx, dy>> \in {0 - 1, 0, 1} \X {0 - 1, 0, 1}}
        \cap ((0..(data.w - 1)) \X (0..(data.h - 1)))}

RECURSIVE MaxOver(_, _)
\* maxValue = Math.max(maxValue, ...) over a set of values, from maxValue
MaxOver(values, maxValue) ==
    IF values = {}
    THEN maxValue
    ELSE LET v == CHOOSE x \in values : TRUE
         IN  MaxOver(values \ {v}, Max(maxValue, v))

\* one iteration of dilateMask
DilateOnce(current) ==
    MakeImage(current.w, current.h,
        [i \in 1..Len(current.px) |->
            LET x == (i - 1) % current.w
                y == (i - 1) \div current.w
                maxValue == MaxOver({current.px[n].r : n \in Neighbourhood(current, x, y)}, 0)
            IN  Pixel(maxValue, maxValue, maxValue, 255)])

RECURSIVE DilateMask(_, _)
\* dilateMask: current starts as a copy of imageData
DilateMask(imageData, iterations) ==
    IF iterations <= 0
    THEN imageData
    ELSE DilateMask(DilateOnce(imageData), iterations - 1)

\* the normalised kernel of applyGaussianBlur at radius 0: sigma = 0 / 3,
\* Math.exp(-(x * x) / (2 * sigma * sigma)) = Math.exp(-0 / 0) = NaN, and
\* kernel[0] /= kernelSum is NaN / NaN.  Other radii have irrational
\* weights and are not applied by the model.
Kernel(radius) == [k \in 1..(2 * radius + 1) |-> NaN]

RECURSIVE WeightedSum(_, _, _)
\* r += data[idx] * weight, over the samples from the k-th onwards
WeightedSum(samples, kernel, k) ==
    IF k > Len(samples)
    THEN Num(0)
    ELSE Plus(Times(Num(samples[k]), kernel[k]), WeightedSum(samples, kernel, k + 1))

\* one pass of applyGaussianBlur along the axis (dx, dy), the sampled
\* coordinate clamped to the image
BlurPass(data, radius, dx, dy) ==
    LET kernel == Kernel(radius)
        at(i, k) ==
            LET x == (i - 1) % data.w
                y == (i - 1) \div data.w
                px == Min(Max(x + dx * (k - 1 - radius), 0), data.w - 1)
                py == Min(Max(y + dy * (k - 1 - radius), 0), data.h - 1)
            IN  data.px[py * data.w + px + 1]
        sum(i, channel) ==
            ToUint8Clamped(WeightedSum([k \in 1..(2 * radius + 1) |-> at(i, k)[channel]],
                                       kernel, 1))
    IN  MakeImage(data.w, data.h,
            [i \in 1..Len(data.px) |->
                Pixel(sum(i, "r"), sum(i, "g"), sum(i, "b"), sum(i, "a"))])

\* applyGaussianBlur: the horizontal pass into temp, the vertical into output
ApplyGaussianBlur(imageData, radius) ==
    BlurPass(BlurPass(imageData, radius, 1, 0), radius, 0, 1)

\* createImprovedMask: the binary mask (white where alpha < 200), dilated if
\* expandPixels > 0, blurred if featherRadius > 0
CreateImprovedMask(imageData, featherRadius, expandPixels) ==
    LET maskData ==
            MakeImage(imageData.w, imageData.h,
                [i \in 1..Len(imageData.px) |->
                    IF imageData.px[i].a < FillAlphaThreshold
                    THEN Pixel(255, 255, 255, 255)
                    ELSE Pixel(0, 0, 0, 255)])
        expanded == IF expandPixels > 0 THEN DilateMask(maskData, expandPixels) ELSE maskData
    IN  IF featherRadius > 0 THEN ApplyGaussianBlur(expanded, featherRadius) ELSE expanded

NoMaskCall == [fn |-> "none", param |-> 0, outcome |-> ""]

NoMaskResult == [kind |-> "none"]

maskFrame == UNCHANGED <<segmentArtVars, panelVars, apiVars, heapVars, brushVars>>

CallCalculateBounds(outcome) ==
    /\ maskCall.fn = "none"
    /\ maskCall' = [fn |-> "calculateBoundsFromMaskImage", param |-> 0, outcome |-> outcome]
    /\ maskResult' = [kind |-> "resolved",
                      value |-> CalculateBoundsFromMaskImage(maskInput, outcome)]
    /\ UNCHANGED maskInput
    /\ maskFrame

CallDilateMask(iterations) ==
    /\ maskCall.fn = "none"
    /\ maskCall' = [fn |-> "dilateMask", param |-> iterations, outcome |-> ""]
    /\ maskResult' = [kind |-> "imageData", image |-> DilateMask(maskInput, iterations)]
    /\ UNCHANGED maskInput
    /\ maskFrame

CallApplyGaussianBlur(radius) ==
    /\ maskCall.fn = "none"
    /\ maskCall' = [fn |-> "applyGaussianBlur", param |-> radius, outcome |-> ""]
    /\ maskResult' = [kind |-> "imageData", image |-> ApplyGaussianBlur(maskInput, radius)]
    /\ UNCHANGED maskInput
    /\ maskFrame

CallCreateImprovedMask(featherRadius, expandPixels) ==
    /\ maskCall.fn = "none"
    /\ maskCall' = [fn |-> "createImprovedMask", param |-> expandPixels, outcome |-> ""]
    /\ maskResult' = [kind |-> "imageData",
                      image |-> CreateImprovedMask(maskInput, featherRadius, expandPixels)]
    /\ UNCHANGED maskInput
    /\ maskFrame

\* no mask function is in use
MaskIdle ==
    /\ maskInput = NullImage
    /\ maskCall = NoMaskCall
    /\ maskResult = NoMaskResult

(***************************************************************************)
(* KonvaCanvas: the brush and eraser tools.  onExtract is the page's       *)
(* handleSegment.  The stroke layer is rendered by Konva; the data URL of  *)
(* the preview mask is kept as the stage size and the strokes it shows.    *)
(***************************************************************************)
\* maskCanvas.toDataURL(): black, the stroke layer drawn over it
BrushMaskUrl(strokes) ==
    [w |-> StageWidth, h |-> StageHeight, px |-> <<>>, strokes |-> strokes]

StrMask == <<"m","a","s","k">>

brushFrame == UNCHANGED <<pageVars, canvasVars, taskVars, panelVars, apiVars, heapVars, maskVars>>

\* handleDrawStart in brush or eraser mode: a new line of one point
BrushDrawStart(pos) ==
    /\ ~IsNull(imageElement)
    /\ isPointInImage(pos)
    /\ Len(lines) < MaxStrokes
    /\ isDrawing' = TRUE
    /\ lines' = Append(lines, <<pos>>)
    /\ toast' = NoToast
    /\ UNCHANGED <<docVars, now>>
    /\ brushFrame

\* handleDrawMove in brush or eraser mode: the point joins the last line,
\* then onExtract(maskCanvas.toDataURL(), 'mask') unless the stroke layer or
\* the 2d context is missing; handleSegment gets no position
BrushDrawMove(pos, ctx, t) ==
    /\ ClockReads(t)
    /\ ~IsNull(imageElement)
    /\ isDrawing
    /\ isPointInImage(pos)
    /\ Len(lines[Len(lines)]) < MaxLassoPoints
    /\ Len(layers) < MaxLayers
    /\ CanSave(DocEnv)
    /\ lines' = [lines EXCEPT ![Len(lines)] = Append(@, pos)]
    /\ LET out == [layer |-> ctx, base |-> FALSE, layerUrl |-> BrushMaskUrl(lines'),
                   baseUrl |-> NullImage, type |-> StrMask, position |-> FullPosition(0, 0)]
       IN  /\ CommitExtraction(out, DocEnv, [history |-> history, historyIndex |-> historyIndex], t)
           /\ toast' = IF out.layer THEN Toast("Layer Created") ELSE NoToast
    /\ UNCHANGED isDrawing
    /\ brushFrame

\* handleDrawEnd
BrushDrawEnd ==
    /\ isDrawing
    /\ isDrawing' = FALSE
    /\ toast' = NoToast
    /\ UNCHANGED <<docVars, now, lines>>
    /\ brushFrame

\* no stroke has been drawn
BrushIdle ==
    /\ lines = <<>>
    /\ isDrawing = FALSE

\* nothing outside the SegmentArt page is in use
LibraryIdle == PanelIdle /\ ApiIdle /\ HeapIdle /\ MaskIdle /\ BrushIdle

(***************************************************************************)
(* Specifications.  Spec runs the page from construction on; the others    *)
(* start from a page that already holds an image and its detected regions  *)
(* and drive one feature each.                                             *)
(***************************************************************************)
\* Outcomes of the three getContext('2d') calls of an extraction.
\* AllContexts: every context is obtained.
AllContexts == {<<TRUE, TRUE, TRUE>>}

\* CtxOutcomes: at most one of the three calls returns null.
CtxOutcomes == {<<TRUE, TRUE, TRUE>>, <<FALSE, TRUE, TRUE>>,
                <<TRUE, FALSE, TRUE>>, <<TRUE, TRUE, FALSE>>}

\* SegmentArt after construction
Constructed ==
    /\ uploadedImage = NullImage
    /\ layers = <<>>
    /\ history = <<>>
    /\ historyIndex = -1
    /\ selectedLayerIds = {}
    /\ detectedRegions = <<>>
    /\ imageType = "null"
    /\ isSegmenting = FALSE
    /\ isMerging = FALSE
    /\ isFillingContent = FALSE
    /\ isProcessing = FALSE
    /\ hasSelection = FALSE
    /\ imageElement = NullImage
    /\ maskImages = <<>>
    /\ selection = <<>>
    /\ listenerEnv = EmptyEnv
    /\ now = 1
    /\ toast = NoToast
    /\ detectTask = IdleDetect
    /\ fillTask = IdleFill
    /\ mergeTask = IdleMerge
    /\ bgTask = IdleBg

Init == Constructed /\ LibraryIdle

\* the page once `image` is uploaded and decoded by the canvas, smartSegment
\* has answered `regions` and their masks are loaded (regions = <<>>: no
\* detection was asked for)
Prepared(image, regions) ==
    LET first == <<[image |-> image, layers |-> <<>>]>>
    IN  /\ uploadedImage = image
        /\ layers = <<>>
        /\ history = first
        /\ historyIndex = 0
        /\ selectedLayerIds = {}
        /\ detectedRegions = regions
        /\ imageType = (IF regions = <<>> THEN "null" ELSE "face")
        /\ isSegmenting = FALSE
        /\ isMerging = FALSE
        /\ isFillingContent = FALSE
        /\ isProcessing = FALSE
        /\ hasSelection = FALSE
        /\ imageElement = image
        /\ maskImages = LoadedMasks(regions)
        /\ selection = <<>>
        /\ listenerEnv = [image |-> image, layers |-> <<>>, history |-> first, historyIndex |-> 0]
        /\ now = 1
        /\ toast = NoToast
        /\ detectTask = IdleDetect
        /\ fillTask = IdleFill
        /\ mergeTask = IdleMerge
        /\ bgTask = IdleBg
        /\ LibraryIdle

\* the canvas effects
Effects == ImageLoaded \/ MasksLoaded

\* a click on a hovered region; Contexts are the outcomes of its three
\* getContext('2d') calls
Extract(Contexts) ==
    \E r \in 1..Len(detectedRegions), c \in Contexts, t \in 1..MaxClock :
        ClickRegion(r, c[1], c[2], c[3], t)

Undo == handleUndo \/ handleRedo

(***************************************************************************)
(* The page from construction: upload, detection, extraction, undo/redo    *)
(***************************************************************************)
Next ==
    /\ UNCHANGED libVars
    /\ \/ \E img \in UploadImages : handleFileUpload(img)
       \/ handleDetectRegions
       \/ \E result \in SegmentResults : DetectResolved(result)
       \/ DetectRejected
       \/ Effects
       \/ Extract(AllContexts)
       \/ \E id \in LayerIds(layers) : deleteLayer(id)
       \/ Undo

Spec == Init /\ [][Next]_vars

(***************************************************************************)
(* The prepared page of an image with a gap, and gap filling               *)
(***************************************************************************)
InitFill == Prepared(GapImage, DocRegions)

NextFill ==
    /\ UNCHANGED libVars
    /\ \/ ImageLoaded
       \/ \E useLocalFill \in BOOLEAN : handleContentAwareFill(useLocalFill)
       \/ FillResolved
       \/ FillRejected
       \/ Undo

SpecFill == InitFill /\ [][NextFill]_vars

(***************************************************************************)
(* The prepared page with the layer panel: selection and merge             *)
(***************************************************************************)
InitMerge == Prepared(DocImage, DocRegions)

NextMerge ==
    /\ UNCHANGED libVars
    /\ \/ ImageLoaded
       \/ Extract(AllContexts)
       \/ \E id \in LayerIds(layers) : deleteLayer(id)
       \/ \E id \in LayerIds(layers) : toggleLayerVisibility(id)
       \/ \E id \in LayerIds(layers) : toggleLayerSelection(id)
       \/ mergeLayers
       \/ \E t \in 1..MaxClock : MergeResolved(t)
       \/ MergeRejected

SpecMerge == InitMerge /\ [][NextMerge]_vars

(***************************************************************************)
(* Upload, reset and region detection                                      *)
(***************************************************************************)
NextDetect ==
    /\ UNCHANGED libVars
    /\ \/ \E img \in UploadImages : handleFileUpload(img)
       \/ handleReset
       \/ handleDetectRegions
       \/ \E result \in SegmentResults : DetectResolved(result)
       \/ DetectRejected
       \/ Effects
       \/ Extract(AllContexts)

SpecDetect == Init /\ [][NextDetect]_vars

(***************************************************************************)
(* The prepared page with handleBgRemoval                                  *)
(***************************************************************************)
InitBg == Prepared(DocImage, DocRegions)

NextBg ==
    /\ UNCHANGED libVars
    /\ \/ ImageLoaded
       \/ handleBgRemoval
       \/ BgNoMatch
       \/ \E m \in SUBSET (1..bgTask.regionCount), c \in AllContexts, t \in 1..MaxClock :
             BgMatched(m, c[1], c[2], c[3], t)
       \/ \E c \in AllContexts, t \in 1..MaxClock : BgNext(c[1], c[2], c[3], t)
       \/ BgDone

SpecBg == InitBg /\ [][NextBg]_vars

(***************************************************************************)
(* Region extraction over bounded images, masks and labels                 *)
(***************************************************************************)
\* mask intensities around the two thresholds
MaskValues == {0, 128, 129, 200, 201, 255}

PxPixels == {Pixel(255, 0, 0, 255), Pixel(10, 20, 30, 128), Pixel(0, 0, 0, 0)}

Opaque(w, h) == MakeImage(w, h, [i \in 1..(w * h) |-> Pixel(i, 2 * i, 255 - i, 255)])

\* the 8x8 mask of the inversion example: 58 white cells, 6 black cells
WallMask == GreyMask(8, 8, [i \in 1..64 |-> IF i \in {1, 10, 19, 28, 37, 46} THEN 0 ELSE 255])

PxImages == {MakeImage(2, 1, <<p, q>>) : p \in PxPixels, q \in PxPixels}

PxMasks == {GreyMask(2, 1, <<u, v>>) : u \in MaskValues, v \in MaskValues}

\* masks of another width than the image: 3 white of 4, and 4 white of 5
WideMasks == {GreyMask(4, 1, <<255, 255, 255, 0>>), GreyMask(5, 1, <<255, 255, 255, 255, 0>>)}

StrBackgroundWall == <<"b","a","c","k","g","r","o","u","n","d","_","w","a","l","l">>

PxLabels == { <<"n","o","s","e">>, <<"B","G">>, StrBackgroundWall }

PxInputs ==
    {<<image, mask, label>> : image \in PxImages, mask \in PxMasks, label \in PxLabels}
        \cup {<<Opaque(3, 1), mask, label>> : mask \in WideMasks, label \in PxLabels}
        \cup {<<Opaque(8, 8), WallMask, StrBackgroundWall>>}

InitPx ==
    \E in \in PxInputs : Prepared(in[1], <<[label |-> in[3], mask |-> in[2]]>>)

NextPx ==
    /\ UNCHANGED libVars
    /\ \/ ImageLoaded
       \/ Extract(CtxOutcomes)

SpecPx == InitPx /\ [][NextPx]_vars

(***************************************************************************)
(* The lasso tool on a 2x2 image                                           *)
(***************************************************************************)
\* pointer positions on the 800x600 stage; the image is shown at 600x600
\* from (100, 0): the corners of its first pixel, the top left quadrant
LassoPositions == {<<100, 0>>, <<400, 0>>, <<400, 300>>, <<100, 300>>}

InitLasso == Prepared(Opaque(2, 2), <<>>)

NextLasso ==
    /\ UNCHANGED libVars
    /\ \/ ImageLoaded
       \/ \E pos \in LassoPositions : handleDrawStart(pos)
       \/ \E pos \in LassoPositions : handleDrawMove(pos)
       \/ \E c \in AllContexts, t \in 1..MaxClock : handleSegmentSelection(c[1], c[2], c[3], t)

SpecLasso == InitLasso /\ [][NextLasso]_vars

(***************************************************************************)
(* The page with three extracted layers: selection and merge               *)
(***************************************************************************)
StackImage == Opaque(3, 1)

\* three regions of one pixel each
StackRegions ==
    << [label |-> <<"n","o","s","e">>, mask |-> GreyMask(3, 1, <<255, 0, 0>>)],
       [label |-> <<"h","a","i","r">>, mask |-> GreyMask(3, 1, <<0, 255, 0>>)],
       [label |-> <<"l","i","p","s">>, mask |-> GreyMask(3, 1, <<0, 0, 255>>)] >>

\* The page Prepared(image, regions) after a handleBgRemoval whose prompt
\* matched every region, once its loop has finished and before the canvas
\* has decoded a new base image: every 'segmentRegion' event was served by
\* the listener registered on the prepared page, so each extraction read the
\* uploaded image and saved the history of that closure; the layers were
\* appended one Date.now() apart, the last at the clock reading 1.
Stacked(image, regions) ==
    LET n == Len(regions)
        first == [image |-> image, layers |-> <<>>]
        LayerOf(i) ==
            NewLayer(i - n + 1,
                     ToDataURL(ExtractLayerData(GetImageData(image), GetImageData(regions[i].mask),
                                                regions[i].label)),
                     regions[i].label, FullPosition(image.w, image.h))
    IN  /\ uploadedImage = ToDataURL(UpdateBaseData(GetImageData(image),
                                                    GetImageData(regions[n].mask)))
        /\ layers = [i \in 1..n |-> LayerOf(i)]
        /\ history = <<first, first>>
        /\ historyIndex = 1
        /\ selectedLayerIds = {}
        /\ detectedRegions = regions
        /\ imageType = "face"
        /\ isSegmenting = FALSE
        /\ isMerging = FALSE
        /\ isFillingContent = FALSE
        /\ isProcessing = FALSE
        /\ hasSelection = FALSE
        /\ imageElement = image
        /\ maskImages = LoadedMasks(regions)
        /\ selection = <<>>
        /\ listenerEnv = [image |-> image, layers |-> <<>>, history |-> <<first>>,
                          historyIndex |-> 0]
        /\ now = 1
        /\ toast = Toast("Segmented features")
        /\ detectTask = IdleDetect
        /\ fillTask = IdleFill
        /\ mergeTask = IdleMerge
        /\ bgTask = IdleBg
        /\ LibraryIdle

InitPlace == Stacked(StackImage, StackRegions)

NextPlace ==
    /\ UNCHANGED libVars
    /\ \/ ImageLoaded
       \/ \E id \in LayerIds(layers) : toggleLayerSelection(id)
       \/ mergeLayers
       \/ \E t \in 1..MaxClock : MergeResolved(t)
       \/ MergeRejected

SpecPlace == InitPlace /\ [][NextPlace]_vars

(***************************************************************************)
(* The layer panel over a stack with its base layer at the bottom          *)
(***************************************************************************)
\* what can be typed as a layer name
PanelNames == {"", "Sky"}

\* the stack the owner hands to the panel: the base layer at the bottom
\* (index 0) and one layer above it
PanelStack == <<PanelLayer(1, TRUE), PanelLayer(2, FALSE)>>

InitPanel ==
    /\ Constructed
    /\ panelLayers = PanelStack
    /\ draggedIndex = NoIndex
    /\ dragOverIndex = NoIndex
    /\ editingLayerId = NoLayer
    /\ editingName = ""
    /\ ApiIdle
    /\ HeapIdle
    /\ MaskIdle
    /\ BrushIdle

NextPanel ==
    \/ \E index \in RowIndexes : handleDragStart(index)
    \/ \E index \in RowIndexes : handleDragOver(index)
    \/ \E index \in RowIndexes : handleDrop(index)
    \/ handleDragEnd
    \/ \E index \in RowIndexes : ClickDelete(index)
    \/ \E index \in RowIndexes : ClickDuplicate(index)
    \/ \E index \in RowIndexes : ClickVisibility(index)
    \/ \E index \in RowIndexes : ClickLock(index)
    \/ \E index \in RowIndexes : handleStartEdit(index)
    \/ \E text \in PanelNames : TypeName(text)
    \/ handleFinishEdit
    \/ CancelEdit

SpecPanel == InitPanel /\ [][NextPanel]_vars

(***************************************************************************)
(* Gap filling on a page with extracted layers                             *)
(***************************************************************************)
InitFillStack == Stacked(DocImage, DocRegions)

NextFillStack ==
    /\ UNCHANGED libVars
    /\ \/ ImageLoaded
       \/ \E useLocalFill \in BOOLEAN : handleContentAwareFill(useLocalFill)
       \/ FillResolved
       \/ FillRejected
       \/ \E id \in LayerIds(layers) : toggleLayerVisibility(id)
       \/ \E id \in LayerIds(layers) : deleteLayer(id)

SpecFillStack == InitFillStack /\ [][NextFillStack]_vars

(***************************************************************************)
(* Merging the layers of a stack whose images load or fail to load         *)
(***************************************************************************)
\* an image that is loading fires its load or its error event
MergeSettles ==
    \/ MergeLoadFailed
    \/ MergeRejected
    \/ \E t \in 1..MaxClock : MergeResolved(t)

NextMergeLoad ==
    /\ UNCHANGED libVars
    /\ \/ ImageLoaded
       \/ \E id \in LayerIds(layers) : toggleLayerVisibility(id)
       \/ \E id \in LayerIds(layers) : toggleLayerSelection(id)
       \/ mergeLayers
       \/ MergeSettles

SpecMergeLoad ==
    InitFillStack /\ [][NextMergeLoad]_vars /\ WF_vars(MergeSettles /\ UNCHANGED libVars)

(***************************************************************************)
(* The local fill over bounded images                                      *)
(***************************************************************************)
\* a gap, a pixel just below and one at the fill threshold, an opaque pixel
LocalPixels == {Pixel(0, 0, 0, 0), Pixel(9, 9, 9, 199), Pixel(10, 20, 30, 200),
                Pixel(255, 0, 0, 255)}

\* rows of 4 pixels (a ring of radius 3 reaches from one end to the other)
\* and 3x3 images with a gap in one corner, sampled along the diagonal
LocalImages ==
    {MakeImage(4, 1, <<p, q, r, s>>) : p \in LocalPixels, q \in LocalPixels,
                                       r \in LocalPixels, s \in LocalPixels}
        \cup {MakeImage(3, 3, [i \in 1..9 |-> IF i = 1 THEN Pixel(0, 0, 0, 0)
                                               ELSE IF i = 9 THEN p
                                               ELSE Pixel(0, 0, 255, 255)]) : p \in LocalPixels}

InitLocal == \E image \in LocalImages : Prepared(image, <<>>)

NextLocal ==
    /\ UNCHANGED libVars
    /\ \/ ImageLoaded
       \/ handleContentAwareFill(TRUE)
       \/ FillResolved
       \/ FillRejected

SpecLocal == InitLocal /\ [][NextLocal]_vars

(***************************************************************************)
(* The rate limiter under concurrent callers                               *)
(***************************************************************************)
NextLimiter ==
    \/ \E c \in Callers, api \in LimitedApis : CallApi(c, api)
    \/ \E c \in Callers : WakeUp(c)
    \/ \E c \in Callers : AddRequest(c)
    \/ \E c \in Callers : FetchSucceeded(c)
    \/ Tick

SpecLimiter == Init /\ [][NextLimiter]_vars

(***************************************************************************)
(* The retry loops of the api functions, one caller                        *)
(***************************************************************************)
NextRetry ==
    \/ \E api \in Apis : CallApi(1, api)
    \/ WakeUp(1)
    \/ AddRequest(1)
    \/ FetchSucceeded(1)
    \/ \E error \in ApiErrors : FetchFailed(1, error)
    \/ RetryDue(1)
    \/ Tick

SpecRetry == Init /\ [][NextRetry]_vars

\* every timer fires, every fetch settles and every await resumes
SpecRetryFair == Init /\ [][NextRetry]_vars /\ WF_vars(NextRetry)

(***************************************************************************)
(* The document as JavaScript objects: from an uploaded image, the         *)
(* handlers that read or write layers and history.                         *)
(***************************************************************************)
InitHeap ==
    /\ Constructed
    /\ PanelIdle
    /\ ApiIdle
    /\ MaskIdle
    /\ BrushIdle
    /\ HeapUploaded

NextHeap ==
    \/ HeapHandleSegment
    \/ \E layerId \in HeapLayerIds(heap, heapLayers) : HeapDeleteLayer(layerId)
    \/ \E layerId \in HeapLayerIds(heap, heapLayers) : HeapToggleLayerVisibility(layerId)
    \/ HeapHandleUndo
    \/ HeapHandleRedo
    \/ \E selected \in SUBSET HeapLayerIds(heap, heapLayers) : HeapMergeLayers(selected)
    \/ HeapMergeResolved
    \/ HeapHandleContentAwareFill
    \/ HeapFillResolved
    \/ HeapTaskRejected

SpecHeap == InitHeap /\ [][NextHeap]_vars

(***************************************************************************)
(* The mask functions of api.ts, each applied once to a mask drawn from a  *)
(* bounded set.                                                            *)
(***************************************************************************)
MaskPixels == {Pixel(0, 0, 0, 0), Pixel(255, 255, 255, 1),
               Pixel(0, 0, 0, 255), Pixel(255, 255, 255, 255)}

MaskImages ==
    {MakeImage(2, 2, <<a, b, c, d>>) : <<a, b, c, d>> \in
        MaskPixels \X MaskPixels \X MaskPixels \X MaskPixels}
    \cup {MakeImage(3, 1, <<a, b, c>>) : <<a, b, c>> \in MaskPixels \X MaskPixels \X MaskPixels}
    \cup {MakeImage(1, 3, <<a, b, c>>) : <<a, b, c>> \in MaskPixels \X MaskPixels \X MaskPixels}

InitMask ==
    /\ Constructed
    /\ PanelIdle
    /\ ApiIdle
    /\ HeapIdle
    /\ BrushIdle
    /\ maskInput \in MaskImages
    /\ maskCall = NoMaskCall
    /\ maskResult = NoMaskResult

NextMask ==
    \/ \E outcome \in LoadOutcomes : CallCalculateBounds(outcome)
    \/ \E iterations \in 0..MaxIterations : CallDilateMask(iterations)
    \/ CallApplyGaussianBlur(0)
    \/ \E expandPixels \in 0..MaxIterations : CallCreateImprovedMask(0, expandPixels)

SpecMask == InitMask /\ [][NextMask]_vars

(***************************************************************************)
(* The brush tool on a 2x2 image                                           *)
(***************************************************************************)
BrushPositions == {<<100, 0>>, <<400, 300>>}

NextBrush ==
    /\ UNCHANGED <<panelVars, apiVars, heapVars, maskVars>>
    /\ \/ ImageLoaded /\ UNCHANGED brushVars
       \/ \E pos \in BrushPositions : BrushDrawStart(pos)
       \/ \E pos \in BrushPositions, ctx \in BOOLEAN, t \in 1..MaxClock : BrushDrawMove(pos, ctx, t)
       \/ BrushDrawEnd

SpecBrush == InitLasso /\ [][NextBrush]_vars

(***************************************************************************)
(* Properties                                                              *)
(***************************************************************************)
\* the document of a state: base image and layer list
Doc(env) == [image |-> env.image, layers |-> env.layers]

\* a destructive operation of the page from construction
DestructiveStep ==
    \/ Extract(AllContexts)
    \/ \E id \in LayerIds(layers) : deleteLayer(id)

\* C1 (as claimed): a destructive operation takes the document from S to S';
\* handleUndo then yields exactly S, and a following handleRedo exactly S'.
C1_HistoryRoundTrip ==
    [][DestructiveStep /\ Len(history) > 0 =>
          /\ Doc(Undone(DocEnv')) = Doc(DocEnv)
          /\ Doc(Redone(Undone(DocEnv'))) = Doc(DocEnv')]_vars

\* C2 (as claimed): when saveToHistory runs while historyIndex is below the
\* top of the stack, the snapshots above historyIndex are discarded, the new
\* snapshot is the last element and historyIndex points at it.
C2_LinearUndoStack ==
    [][FillResolved /\ toast' = Toast("Gaps filled") /\ historyIndex < Len(history) - 1 =>
          /\ history' = Append(SubSeq(history, 1, historyIndex + 1), history'[Len(history')])
          /\ historyIndex' = Len(history') - 1]_vars

\* C3 (as claimed): a smartSegment result that arrives after the uploaded
\* image has changed (handleReset) is discarded: detectedRegions and imageType
\* keep their values.
C3_StaleDetectionDiscarded ==
    [][(\E result \in SegmentResults : DetectResolved(result)) /\ detectTask.image # uploadedImage =>
          /\ detectedRegions' = detectedRegions
          /\ imageType' = imageType]_vars

\* C4 (as claimed): a later extraction of the handleBgRemoval loop works on
\* the base image the earlier one left, so every pixel the base has lost
\* stays at alpha 0.
C4_ExtractionSerialized ==
    [][(\E c \in AllContexts, t \in 1..MaxClock : BgNext(c[1], c[2], c[3], t)) =>
          \A i \in 1..Len(uploadedImage.px) :
              uploadedImage.px[i].a = 0 => uploadedImage'.px[i].a = 0]_vars

\* C5 (as claimed): an invocation of extractRegion either appends one layer
\* and replaces the base image by the updated base, or changes neither,
\* whichever canvas context it does not get.
C5_ExtractionAtomic ==
    [][\A r \in 1..Len(detectedRegions), c \in CtxOutcomes, t \in 1..MaxClock :
          ClickRegion(r, c[1], c[2], c[3], t) =>
              \/ /\ Len(layers') = Len(layers) + 1
                 /\ uploadedImage' = ToDataURL(UpdateBaseData(GetImageData(imageElement),
                                                              GetImageData(maskImages[r])))
              \/ UNCHANGED <<layers, uploadedImage>>]_vars

\* the intensity of the mask at the nearest-neighbour sample of the pixel
\* (x, y) of a w x h image
MaskSample(mask, x, y, w, h) ==
    mask.px[((y * mask.h) \div h) * mask.w + ((x * mask.w) \div w) + 1].r

\* the sample for the i-th pixel of the image extractRegion reads
SampleAt(r, i) ==
    MaskSample(maskImages[r], (i - 1) % imageElement.w, (i - 1) \div imageElement.w,
               imageElement.w, imageElement.h)

\* C6: after extractRegion, the updated base has alpha 0 at every pixel whose
\* mask sample is above 200 and the alpha of the image the extraction read
\* at every other pixel, whatever the label and the white/black ratio.
C6_StrictRemoval ==
    [][\A r \in 1..Len(detectedRegions), t \in 1..MaxClock :
          ClickRegion(r, TRUE, TRUE, TRUE, t) =>
              \A i \in 1..Len(imageElement.px) :
                  uploadedImage'.px[i].a =
                      IF SampleAt(r, i) > 200 THEN 0 ELSE imageElement.px[i].a]_vars

\* C6 witness: an extraction has removed the pixel under a sample of 201 and
\* kept the opaque pixel under a sample of 200
C6_Witness ==
    /\ Len(layers) = 1
    /\ Len(detectedRegions) = 1
    /\ detectedRegions[1].mask = GreyMask(2, 1, <<201, 200>>)
    /\ imageElement.w = 2 /\ imageElement.px[1].a = 255 /\ imageElement.px[2].a = 255
    /\ uploadedImage.px[1].a = 0 /\ uploadedImage.px[2].a = 255

\* the inversion rule as the claim words it
InvertedAsClaimed(region) ==
    LET label == ToLowerCase(region.label)
        high == Cardinality({i \in 1..Len(region.mask.px) : region.mask.px[i].r > 128})
    IN  \/ Includes(label, StrBackground)
        \/ Includes(label, StrBg)
        \/ high > 3 * (Len(region.mask.px) - high)

\* the layer an extraction step has appended
NewestLayer == layers'[Len(layers')].url

\* C7 (amended): the mask is treated as inverted iff the lower-cased label
\* contains "background" or "bg" or the samples above 128 outnumber the rest
\* by more than 3 to 1; the layer has non-zero alpha exactly at the pixels
\* that the source has non-zero alpha at and whose sample is <= 128 when
\* inverted, > 128 when not.
C7_InversionHeuristic ==
    [][\A r \in 1..Len(detectedRegions), c \in CtxOutcomes, t \in 1..MaxClock :
          ClickRegion(r, c[1], c[2], c[3], t) /\ c[1] /\ c[2] =>
              /\ Len(layers') = Len(layers) + 1
              /\ \A i \in 1..Len(imageElement.px) :
                    NewestLayer.px[i].a # 0 <=>
                        /\ imageElement.px[i].a # 0
                        /\ IF InvertedAsClaimed(detectedRegions[r])
                           THEN SampleAt(r, i) <= 128
                           ELSE SampleAt(r, i) > 128]_vars

\* C7 (as claimed): when the mask is treated as inverted, the layer has
\* non-zero alpha exactly at the source pixels whose sample is <= 128.
C7_InvertedKeepsLow ==
    [][\A r \in 1..Len(detectedRegions), c \in CtxOutcomes, t \in 1..MaxClock :
          ClickRegion(r, c[1], c[2], c[3], t) /\ c[1] /\ c[2]
              /\ InvertedAsClaimed(detectedRegions[r]) =>
              \A i \in 1..Len(imageElement.px) :
                  NewestLayer.px[i].a # 0 <=> SampleAt(r, i) <= 128]_vars

\* C7 witness: the 8x8 mask with 58 white and 6 black cells labelled
\* "background_wall" has been extracted and the layer keeps its 6 black cells
C7_Witness ==
    /\ Len(layers) = 1
    /\ Len(detectedRegions) = 1
    /\ detectedRegions[1].label = StrBackgroundWall
    /\ detectedRegions[1].mask = WallMask
    /\ {i \in 1..64 : layers[1].url.px[i].a # 0} = {1, 10, 19, 28, 37, 46}

\* a fully opaque image
IsOpaque(img) == \A i \in 1..Len(img.px) : img.px[i].a = 255

DistinctPoints(points) == Cardinality({points[i] : i \in 1..Len(points)})

\* the lasso polygon reaches into the i-th pixel of the image
InsideLasso(i) ==
    Coverage(selection, imageElement, (i - 1) % imageElement.w, (i - 1) \div imageElement.w) > 0

SameColour(p, q) == p.r = q.r /\ p.g = q.g /\ p.b = q.b

\* C8: for an opaque source and a lasso of at least 3 distinct points, the
\* layer has alpha 255 at the pixels the polygon reaches into and alpha 0
\* elsewhere, the updated base alpha 0 at those pixels and alpha 255 with
\* the source colour elsewhere: each pixel is opaque in exactly one of them.
C8_LassoPartition ==
    [][\A t \in 1..MaxClock :
          handleSegmentSelection(TRUE, TRUE, TRUE, t) /\ IsOpaque(imageElement)
              /\ DistinctPoints(selection) >= 3 =>
              /\ Len(layers') = Len(layers) + 1
              /\ \A i \in 1..Len(imageElement.px) :
                    IF InsideLasso(i)
                    THEN /\ NewestLayer.px[i].a = 255
                         /\ SameColour(NewestLayer.px[i], imageElement.px[i])
                         /\ uploadedImage'.px[i].a = 0
                    ELSE /\ NewestLayer.px[i].a = 0
                         /\ uploadedImage'.px[i].a = 255
                         /\ SameColour(uploadedImage'.px[i], imageElement.px[i])]_vars

\* C8 witness: the top left quadrant of the opaque 2x2 image has been
\* extracted with a lasso
C8_Witness ==
    /\ imageElement = Opaque(2, 2)
    /\ Len(layers) = 1
    /\ layers[1].type = LassoType
    /\ [i \in 1..4 |-> layers[1].url.px[i].a] = <<255, 0, 0, 0>>
    /\ [i \in 1..4 |-> uploadedImage.px[i].a] = <<0, 255, 255, 255>>

\* C9 (as claimed): extracting a lasso selection of fewer than 3 distinct
\* points changes neither the layers, the base image nor the history, and is
\* not reported as a success.
C9_LassoMinimumPoints ==
    [][\A t \in 1..MaxClock :
          handleSegmentSelection(TRUE, TRUE, TRUE, t) /\ DistinctPoints(selection) < 3 =>
              /\ UNCHANGED <<layers, uploadedImage, history, historyIndex>>
              /\ toast' # Toast("Selection segmented successfully")]_vars

\* C10: mergeLayers with fewer than 2 selected layer ids reports the failed
\* precondition and leaves the layer stack, the base image, the history
\* stack and historyIndex unchanged.
C10_MergePrecondition ==
    [][mergeLayers /\ Cardinality(selectedLayerIds) < 2 =>
          /\ toast'.variant = "destructive"
          /\ UNCHANGED <<layers, uploadedImage, history, historyIndex>>]_vars

\* C10 witness: mergeLayers has refused a selection of one of two layers
C10_Witness ==
    /\ toast = Destructive("Select More Layers")
    /\ Cardinality(selectedLayerIds) = 1
    /\ Len(layers) = 2

\* the layers of ls whose id is outside ids, in order
Unselected(ls, ids) == SelectSeq(ls, LAMBDA l : l.id \notin ids)

\* the positions of ls that hold a layer with an id of ids
SelectedAt(ls, ids) == {i \in 1..Len(ls) : ls[i].id \in ids}

\* the merged layer of a stack: the layer of type 'merged'
MergedAt(ls) == {i \in 1..Len(ls) : ls[i].type = <<"m","e","r","g","e","d">>}

\* C11 (as claimed): a successful merge of k >= 2 selected layers of a stack
\* of n leaves n - k + 1 layers, none with a selected id, the unselected
\* layers in their order, and one merged layer at the position of the
\* topmost merged layer: as many unselected layers above it as were above
\* the topmost selected layer (the end of the array is the top of the stack).
\* Stated for a merge whose Date.now() is not the id of a layer of the stack.
C11_MergePlacement ==
    [][\A t \in 1..MaxClock :
          MergeResolved(t) /\ t \notin LayerIds(layers) =>
              LET ids == mergeTask.selectedIds
                  sel == SelectedAt(layers, ids)
                  top == CHOOSE i \in sel : \A j \in sel : j <= i
                  above == Cardinality({i \in (top + 1)..Len(layers) : i \notin sel})
              IN  /\ Len(layers') = Len(layers) - Cardinality(sel) + 1
                  /\ LayerIds(layers') \cap ids = {}
                  /\ Unselected(layers', ids \cup {t}) = Unselected(layers, ids)
                  /\ MergedAt(layers') = {Len(layers') - above}]_vars

\* the 0-based indexes of the layers flagged isBaseLayer
BaseIndexes(ls) == {i \in 0..(Len(ls) - 1) : ls[i + 1].isBaseLayer}

\* handleDrop(toIndex) calls onLayerReorder(draggedIndex, toIndex)
CallsReorder(toIndex) ==
    handleDrop(toIndex) /\ draggedIndex # NoIndex /\ draggedIndex # toIndex

\* C12: under the operations of the layer panel the layer flagged isBaseLayer
\* is never the source or the target of an onLayerReorder call, is never
\* the layer of an onLayerDelete call, stays in the stack and keeps its
\* stack index.
C12_BaseLayerInvariant ==
    [][/\ \A index \in RowIndexes :
             CallsReorder(index) =>
                 /\ draggedIndex \notin BaseIndexes(panelLayers)
                 /\ index \notin BaseIndexes(panelLayers)
       /\ \A index \in RowIndexes : ClickDelete(index) => index \notin BaseIndexes(panelLayers)
       /\ BaseIndexes(panelLayers') = BaseIndexes(panelLayers)
       /\ \A i \in BaseIndexes(panelLayers) : panelLayers'[i + 1].id = panelLayers[i + 1].id]_vars

\* C12 witness: in a stack of three, with a drag under way, the layers above
\* the base layer have been reordered (the duplicate, made right above its
\* original, is now below it) and the base layer is at index 0
C12_Witness ==
    /\ Len(panelLayers) = 3
    /\ BaseIndexes(panelLayers) = {0}
    /\ panelLayers[2].id = 3
    /\ panelLayers[3].id = 2
    /\ panelLayers[3].name = "Sky"
    /\ draggedIndex = 1

\* a step of handleContentAwareFill: its start or one of its continuations
FillStep ==
    \/ \E useLocalFill \in BOOLEAN : handleContentAwareFill(useLocalFill)
    \/ FillResolved
    \/ FillRejected

\* C13: no step of handleContentAwareFill, local or remote, succeeding,
\* finding no gap or failing, changes the layer stack; when it succeeds the
\* base image is replaced and the newest history snapshot is the document
\* (base image and layers) as it was when the fill was started.
C13_FillKeepsLayers ==
    [][FillStep =>
          /\ layers' = layers
          /\ (FillResolved /\ toast' = Toast("Gaps filled")) =>
                /\ ~HasTransparency(GetImageData(uploadedImage'))
                /\ history'[Len(history')] = Doc(fillTask.env)
                /\ historyIndex' = Len(history') - 1
          /\ toast' # Toast("Gaps filled") => uploadedImage' = uploadedImage]_vars

\* C13 witness: a fill has succeeded on a page that holds two layers, one
\* of them hidden
C13_Witness ==
    /\ toast = Toast("Gaps filled")
    /\ Len(layers) = 2
    /\ ~layers[1].visible
    /\ ~HasTransparency(GetImageData(uploadedImage))
    /\ history[Len(history)].layers # <<>>

\* C14: when the remote fill rejects or the image cannot be read, the error
\* is surfaced as a destructive toast, the base image, the layer stack, the
\* history stack and historyIndex are those of before the step, as they were
\* left by the start of the fill, and isFillingContent is false again with
\* no fill pending, so that a fill can be started anew.
C14_FillFailureRecoverable ==
    [][/\ handleContentAwareFill(FALSE) => UNCHANGED docVars
       /\ (FillRejected /\ ~fillTask.local) =>
             /\ toast'.variant = "destructive"
             /\ UNCHANGED docVars
             /\ ~isFillingContent'
             /\ ~fillTask'.active]_vars

\* C14 witness: a fill has failed on the page with both layers, the base
\* image still has its gap and no fill is pending
C14_Witness ==
    /\ toast = Destructive("Failed to fill content")
    /\ ~isFillingContent /\ ~fillTask.active
    /\ Len(layers) = 2
    /\ HasTransparency(GetImageData(uploadedImage))
    /\ history = <<[image |-> DocImage, layers |-> <<>>], [image |-> DocImage, layers |-> <<>>]>>

\* the RGB of a pixel
Rgb(p) == <<p.r, p.g, p.b>>

\* C15 (amended): after localContentAwareFill every pixel whose input alpha
\* was below 200 has alpha 255 and the RGB of every other filled pixel, every
\* pixel whose input alpha was at least 200 keeps its alpha and, when it is
\* fully opaque, its RGB; the output has no pixel of alpha below 200, and the
\* fill of the output is the output.
C15_LocalFillAmended ==
    [][(FillResolved /\ fillTask.local) =>
          LET in == fillTask.env.image
              out == uploadedImage'
              filled == {i \in 1..Len(in.px) : in.px[i].a < 200}
          IN  /\ \A i \in filled : out.px[i].a = 255
              /\ \A i \in filled, j \in filled : Rgb(out.px[i]) = Rgb(out.px[j])
              /\ \A i \in 1..Len(in.px) :
                    i \notin filled => /\ out.px[i].a = in.px[i].a
                                       /\ in.px[i].a = 255 => out.px[i] = in.px[i]
              /\ \A i \in 1..Len(out.px) : ~(out.px[i].a < 200)
              /\ LocalContentAwareFill(out) = out]_vars

\* C15 witness: the row (gap, alpha 199, alpha 200, red) has been filled: its
\* first two pixels are now the opaque average of the one sample, red
C15_Witness ==
    /\ toast = Toast("Gaps filled")
    /\ history[Len(history)].image =
          MakeImage(4, 1, <<Pixel(0, 0, 0, 0), Pixel(9, 9, 9, 199), Pixel(10, 20, 30, 200), Red>>)
    /\ uploadedImage.px[1] = Red
    /\ uploadedImage.px[2] = Red
    /\ uploadedImage.px[3].a = 200
    /\ uploadedImage.px[4] = Red

\* C15 (as claimed): after localContentAwareFill every pixel whose input
\* alpha was below 200 has alpha 255 and the RGB of every other filled
\* pixel, every pixel whose input alpha was at least 200 is unchanged, the
\* output has no pixel of alpha below 200, and the fill of the output is the
\* output.
C15_LocalFillResult ==
    [][(FillResolved /\ fillTask.local) =>
          LET in == fillTask.env.image
              out == uploadedImage'
              filled == {i \in 1..Len(in.px) : in.px[i].a < 200}
          IN  /\ \A i \in filled : out.px[i].a = 255
              /\ \A i \in filled, j \in filled : Rgb(out.px[i]) = Rgb(out.px[j])
              /\ \A i \in 1..Len(in.px) : i \notin filled => out.px[i] = in.px[i]
              /\ \A i \in 1..Len(out.px) : ~(out.px[i].a < 200)
              /\ LocalContentAwareFill(out) = out]_vars

\* C16 (as claimed): under any interleaving of concurrent callers the request
\* log never holds more than maxRequestsPerMinute (20) timestamps of the
\* last 60000 ms, and a caller that finds the window full waits in
\* waitForRateLimit instead of failing or proceeding.
C16_RateLimiterCap ==
    /\ Len(SelectSeq(requests, LAMBDA time : now - time < 60000)) <= 20
    /\ \A c \in Callers :
          calls[c].pc = "admitted" => Len(SelectSeq(requests, LAMBDA time : now - time < 60000)) < 20

\* C17 (as claimed): in detectObjects, segmentImage, segmentLandscape and
\* contentAwareFill a failed attempt is followed by another one only when
\* the error is of the class model-loading or rate-limited; an error of any
\* other class ends the call at once.
C17_RetryClassification ==
    [][\A c \in Callers, error \in ApiErrors :
          (/\ FetchFailed(c, error)
           /\ calls[c].api \in {"detectObjects", "segmentImage", "segmentLandscape",
                                "contentAwareFill"}) =>
              (calls'[c].pc = "delaying" => error \in {"loading", "rateLimited"})]_vars

\* C18: snapshot isolation.  Once saveToHistory has captured a snapshot, no
\* step of the live document (visibility toggle, delete, extraction, merge,
\* fill, undo, redo) changes the image or the layer list stored in it, also
\* when undo or redo has made the snapshot's own array the live layer list.
C18_SnapshotIsolation ==
    [][\A r \in Refs :
          heap[r].kind = "snapshot" => SnapshotView(heap', r) = SnapshotView(heap, r)]_vars

\* undo or redo installed the array of a snapshot still on the stack as the
\* live list and a toggle followed: the live array is another array that
\* shares a layer object with the snapshot's, and a layer visible in the
\* snapshot is hidden in the live list
C18_Witness ==
    \E i \in 1..Len(heapHistory) :
        LET stored == heap[heap[heapHistory[i]].layers].items
            live == heap[heapLayers].items
        IN  /\ heapLayers # heap[heapHistory[i]].layers
            /\ \E k \in 1..Len(live), j \in 1..Len(stored) : live[k] = stored[j]
            /\ \E k \in 1..Len(live), j \in 1..Len(stored) :
                  /\ heap[live[k]].id = heap[stored[j]].id
                  /\ heap[stored[j]].visible
                  /\ ~heap[live[k]].visible

\* a <= b for fractions of positive denominator
FractionLeq(a, b) == a.num * b.den <= b.num * a.den

\* C19: bounding box invariant.  calculateBoundsFromMaskImage always
\* resolves; for a mask that loads and has a pixel of alpha > 0 the result
\* has xmin <= xmax, ymin <= ymax and all four values in [0,1]; for a mask
\* without such a pixel, or one that fails to load, it is exactly
\* {xmin: 0, ymin: 0, xmax: 1, ymax: 1}.
C19_BoundingBoxInvariant ==
    maskCall.fn = "calculateBoundsFromMaskImage" =>
        /\ maskResult.kind = "resolved"
        /\ LET box == maskResult.value
               zero == Fraction(0, 1)
               one == Fraction(1, 1)
               isIn == \E i \in 1..Len(maskInput.px) : maskInput.px[i].a > 0
           IN  IF maskCall.outcome = "load" /\ isIn
               THEN /\ FractionLeq(box.xmin, box.xmax)
                    /\ FractionLeq(box.ymin, box.ymax)
                    /\ \A v \in {box.xmin, box.ymin, box.xmax, box.ymax} :
                          FractionLeq(zero, v) /\ FractionLeq(v, one)
               ELSE /\ FractionLeq(box.xmin, zero) /\ FractionLeq(zero, box.xmin)
                    /\ FractionLeq(box.ymin, zero) /\ FractionLeq(zero, box.ymin)
                    /\ FractionLeq(box.xmax, one) /\ FractionLeq(one, box.xmax)
                    /\ FractionLeq(box.ymax, one) /\ FractionLeq(one, box.ymax)

\* a loaded mask whose only pixels of alpha > 0 are away from the left
\* edge and span more than one column: a proper box was computed
C19_Witness ==
    /\ maskCall.fn = "calculateBoundsFromMaskImage"
    /\ maskCall.outcome = "load"
    /\ maskInput.px[1].a = 0
    /\ maskResult.value.xmin.num > 0
    /\ maskResult.value.xmax.num > maskResult.value.xmin.num

C21_UndoRedoBoundaries ==
    [][(\/ handleUndo /\ (historyIndex = 0 \/ Len(history) = 0)
        \/ handleRedo /\ historyIndex = Len(history) - 1) =>
           /\ UNCHANGED docVars
           /\ toast'.variant # "destructive"]_vars

\* the bottom of a stack of several snapshots, reached by undoing, with the
\* toast of the undo cleared by a further, refused, undo
C21_Witness ==
    /\ historyIndex = 0
    /\ Len(history) >= 2
    /\ layers = history[1].layers
    /\ uploadedImage = history[1].image
    /\ toast = NoToast

\* C22: stale fill result.  When the base image or the history has changed
\* while handleContentAwareFill was awaiting its fill, the late result is
\* discarded: the base image stays the newer one and every snapshot of the
\* history stays in its place.
C22_StaleFillDiscarded ==
    [][(/\ FillResolved
        /\ \/ uploadedImage # fillTask.env.image
           \/ history # fillTask.env.history) =>
           /\ uploadedImage' = uploadedImage
           /\ Len(history') >= Len(history)
           /\ \A i \in 1..Len(history) : history'[i] = history[i]]_vars

\* C23 (amended): in extractRegion the extracted layer has the dimensions of
\* the source at offset (0,0); a pixel is kept iff its mask sample is <= 128
\* when the mask is treated as inverted, > 128 when not; a kept pixel keeps
\* its source alpha and, when fully opaque, its source RGB; a non-kept pixel
\* gets alpha 0.
C23_KeepRuleAmended ==
    [][\A r \in 1..Len(detectedRegions), c \in CtxOutcomes, t \in 1..MaxClock :
          ClickRegion(r, c[1], c[2], c[3], t) /\ c[1] /\ c[2] =>
              LET layer == layers'[Len(layers')]
                  shouldKeep(i) == IF InvertedAsClaimed(detectedRegions[r])
                                   THEN SampleAt(r, i) <= 128
                                   ELSE SampleAt(r, i) > 128
              IN  /\ layer.url.w = imageElement.w /\ layer.url.h = imageElement.h
                  /\ layer.width = imageElement.w /\ layer.height = imageElement.h
                  /\ layer.x = 0 /\ layer.y = 0
                  /\ \A i \in 1..Len(imageElement.px) :
                        IF shouldKeep(i)
                        THEN /\ layer.url.px[i].a = imageElement.px[i].a
                             /\ imageElement.px[i].a = 255 =>
                                    layer.url.px[i] = imageElement.px[i]
                        ELSE layer.url.px[i].a = 0]_vars

\* C23 witness: a layer of the size of a two-pixel opaque source has been
\* extracted under a mask treated as inverted; it keeps one pixel as it was
\* and has alpha 0 at the other
C23_Witness ==
    /\ Len(layers) = 1
    /\ Len(detectedRegions) = 1
    /\ InvertedAsClaimed(detectedRegions[1])
    /\ imageElement = MakeImage(2, 1, <<Pixel(255, 0, 0, 255), Pixel(255, 0, 0, 255)>>)
    /\ layers[1].width = 2 /\ layers[1].height = 1
    /\ layers[1].url.px[1] = imageElement.px[1]
    /\ layers[1].url.px[2].a = 0

\* C23 (as claimed): the same, with a kept pixel keeping its source RGBA and
\* a non-kept pixel getting alpha 0 with the RGB of the source
C23_ExtractionKeepRule ==
    [][\A r \in 1..Len(detectedRegions), c \in CtxOutcomes, t \in 1..MaxClock :
          ClickRegion(r, c[1], c[2], c[3], t) /\ c[1] /\ c[2] =>
              LET layer == layers'[Len(layers')]
                  shouldKeep(i) == IF InvertedAsClaimed(detectedRegions[r])
                                   THEN SampleAt(r, i) <= 128
                                   ELSE SampleAt(r, i) > 128
              IN  /\ layer.url.w = imageElement.w /\ layer.url.h = imageElement.h
                  /\ layer.width = imageElement.w /\ layer.height = imageElement.h
                  /\ layer.x = 0 /\ layer.y = 0
                  /\ \A i \in 1..Len(imageElement.px) :
                        IF shouldKeep(i)
                        THEN layer.url.px[i] = imageElement.px[i]
                        ELSE /\ layer.url.px[i].a = 0
                             /\ Rgb(layer.url.px[i]) = Rgb(imageElement.px[i])]_vars

C25_BrushDoesNotCommit ==
    [][\A pos \in BrushPositions, ctx \in BOOLEAN, t \in 1..MaxClock :
          BrushDrawMove(pos, ctx, t) =>
              /\ Len(lines') = Len(lines)
              /\ lines'[Len(lines)] = Append(lines[Len(lines)], pos)
              /\ layers' = layers
              /\ history' = history
              /\ historyIndex' = historyIndex]_vars

\* the clock of the specification has reached its bound
ClockExhausted == now + TickMs > 1 + MaxTicks * TickMs

\* C26: bounded retry.  detectObjects, segmentImage, segmentLandscape and
\* contentAwareFill make at most maxRetries (3) attempts and end by returning
\* or throwing; detectImageType makes at most 2 attempts and ends by
\* returning 'face' or 'landscape', never by throwing.  A failed attempt
\* either ends the call or uses up one retry, and a call that has started
\* settles (within the time the clock covers).
C26_BoundedRetry ==
    /\ [](\A c \in Callers :
             calls[c].pc # "idle" =>
                 /\ calls[c].retries >= 1
                 /\ calls[c].retries <= InitialRetries(calls[c].api))
    /\ [](apiOutcome # NoOutcome =>
             /\ apiOutcome.kind \in {"returned", "thrown"}
             /\ apiOutcome.attempts >= 1
             /\ apiOutcome.attempts <=
                    (IF apiOutcome.api = "detectImageType" THEN 2 ELSE MaxRetries)
             /\ apiOutcome.api = "detectImageType" =>
                    /\ apiOutcome.kind = "returned"
                    /\ apiOutcome.value \in {"face", "landscape"})
    /\ [][\A error \in ApiErrors :
             FetchFailed(1, error) =>
                 \/ calls'[1].pc = "idle" /\ apiOutcome' # NoOutcome
                 \/ calls'[1].retries = calls[1].retries - 1]_vars
    /\ (calls[1].pc # "idle") ~> (calls[1].pc = "idle" \/ ClockExhausted)

\* a call gave up after its last attempt failed: one of the four functions
\* threw on its third attempt, or detectImageType returned 'landscape' on
\* its second
C26_Witness ==
    /\ apiOutcome # NoOutcome
    /\ apiOutcome.attempts = InitialRetries(apiOutcome.api)
    /\ \/ apiOutcome.kind = "thrown" /\ apiOutcome.api = "contentAwareFill"
       \/ apiOutcome.kind = "returned" /\ apiOutcome.api = "detectImageType"

\* C27: layer id uniqueness.  In every reachable state the ids of the layers
\* in the stack are pairwise distinct, also when two layers are created
\* without Date.now() advancing between them.
C27_LayerIdsDistinct ==
    \A i, j \in 1..Len(layers) : layers[i].id = layers[j].id => i = j

\* C28: pixel conservation on extraction.  After extractRegion on a source
\* whose pixels are all opaque, every pixel is opaque in the extracted layer
\* or in the updated base image, also when the mask was treated as inverted.
C28_PixelConservation ==
    [][\A r \in 1..Len(detectedRegions), c \in CtxOutcomes, t \in 1..MaxClock :
          (/\ ClickRegion(r, c[1], c[2], c[3], t)
           /\ c[1] /\ c[2] /\ c[3]
           /\ IsOpaque(imageElement)) =>
              \A i \in 1..Len(imageElement.px) :
                  \/ NewestLayer.px[i].a = 255
                  \/ uploadedImage'.px[i].a = 255]_vars

\* C29: selection set consistency.  In every reachable state the selected
\* ids are ids of layers in the stack, after any sequence of selection
\* toggles, deletions, merges, undo, redo and reset.
C29_SelectionWithinStack == selectedLayerIds \subseteq LayerIds(layers)

\* C30: merge always completes.  Every mergeLayers call that passes the
\* precondition eventually finishes with isMerging back to false, also when
\* the image of a selected layer fails to load.
C30_MergeCompletes == isMerging ~> ~isMerging

====
